---------------------------- MODULE Spec2Model ----------------------------
(***************************************************************************)
(* Model of the delta-hedged volatility replay engine                      *)
(* (eliyataleb/volatility-trading-system): the gamma kill switch, the risk *)
(* limiter and its clamp search, the position sizers, the regime signal    *)
(* engine, the per-bar loop of run_single_mode and the configuration       *)
(* validation of run().                                                    *)
(*                                                                         *)
(* Fixed-point conventions (the source computes in binary floating point;  *)
(* the model computes the same formulas exactly on scaled integers):       *)
(*   money, spot, option price      cents                                  *)
(*   delta                          1/DeltaDen (thousandths)               *)
(*   gamma, vega                    1/100, so x_exposure = contracts * x   *)
(*   gamma_risk                     1/1000000                              *)
(*   size factors                   1/SfDen (eighths)                      *)
(*   drawdown                       a fraction [num, den], den > 0         *)
(*   drawdown thresholds            percent                                *)
(*   signal metrics and thresholds  1/10000                                *)
(***************************************************************************)
EXTENDS Integers, Sequences, FiniteSets, TLC

VARIABLES
    call, ret,                  \* a pure function's arguments and its result
    args, granularity, phase,   \* run(): parsed arguments, data granularity, progress
    mode, signal_config,        \* the strategy mode and SignalConfig of a run
    engine, decision, hist_len, \* RegimeSignalEngine fields, its last SignalDecision, len(price_series)
    bar_history,                \* the last bars an engine was fed: the metrics and the sub-state it was in
    idx, cash, option_contracts, hedge_shares, prev_spot, prev_option_mid,
    peak_equity, pending_target_contracts,
    adaptive_short_pause_remaining, adaptive_long_pause_remaining,
    row,                        \* the market row of the last bar
    step_row,                   \* the step row and the per-bar locals of the last bar
    events                      \* the tags of the events the last bar appended

pureVars == <<call, ret>>
runVars == <<args, granularity, phase>>
engineVars == <<mode, signal_config, engine, decision, hist_len, bar_history>>
loopVars == <<idx, cash, option_contracts, hedge_shares, prev_spot, prev_option_mid,
              peak_equity, pending_target_contracts,
              adaptive_short_pause_remaining, adaptive_long_pause_remaining, row,
              step_row, events>>
vars == <<pureVars, runVars, engineVars, loopVars>>

None == "None"
NoRet == [done |-> FALSE]
Return(v) == [done |-> TRUE, value |-> v]

Abs(x) == IF x < 0 THEN -x ELSE x
Sign(x) == IF x > 0 THEN 1 ELSE IF x < 0 THEN -1 ELSE 0
Max(a, b) == IF a >= b THEN a ELSE b
Min(a, b) == IF a <= b THEN a ELSE b

\* Python's round() to an integer of the fraction n / d (d > 0): ties go to even.
RoundHalfEven(n, d) ==
    LET q == n \div d
        r == n % d
    IN  IF 2 * r < d THEN q
        ELSE IF 2 * r > d THEN q + 1
        ELSE IF q % 2 = 0 THEN q ELSE q + 1

(***************************************************************************)
(* Units                                                                   *)
(***************************************************************************)
CONTRACT_MULTIPLIER == 100
DeltaDen == 1000
SfDen == 8
PctDen == 100

(***************************************************************************)
(* risk/kill_switch.py                                                     *)
(***************************************************************************)
gamma_green_threshold == 5000000
gamma_red_threshold == 10000000
gamma_yellow_size_factor == 4
gamma_red_size_factor == 2
kill_drawdown_threshold == 12

\* total_drawdown > pct / 100, for a drawdown fraction dd
DrawdownGt(dd, pct) == dd.num * PctDen > pct * dd.den
\* total_drawdown >= pct / 100
DrawdownGe(dd, pct) == dd.num * PctDen >= pct * dd.den

KillSwitchAction(flatten, size, zone, reasons) ==
    [flatten_positions |-> flatten, size_factor |-> size, zone |-> zone, reasons |-> reasons]

\* A kill switch that flattens on drawdown alone, whatever the zone.
evaluate_flatten_any_zone(gamma_risk, total_drawdown) ==
    LET kill == DrawdownGt(total_drawdown, kill_drawdown_threshold)
        tail == IF kill THEN <<"GAMMA_RED_DRAWDOWN_KILL">> ELSE <<>>
    IN  IF gamma_risk <= gamma_green_threshold
        THEN KillSwitchAction(kill, SfDen, "green", tail)
        ELSE IF gamma_risk <= gamma_red_threshold
        THEN KillSwitchAction(kill, gamma_yellow_size_factor, "yellow",
                              <<"GAMMA_YELLOW_THROTTLE">> \o tail)
        ELSE KillSwitchAction(kill, gamma_red_size_factor, "red",
                              <<"GAMMA_RED_THROTTLE">> \o tail)

\* A kill switch whose zone boundaries are exclusive on the lower zone.
evaluate_exclusive_bounds(gamma_risk, total_drawdown) ==
    IF gamma_risk < gamma_green_threshold
    THEN KillSwitchAction(FALSE, SfDen, "green", <<>>)
    ELSE IF gamma_risk < gamma_red_threshold
    THEN KillSwitchAction(FALSE, gamma_yellow_size_factor, "yellow", <<"GAMMA_YELLOW_THROTTLE">>)
    ELSE IF DrawdownGt(total_drawdown, kill_drawdown_threshold)
    THEN KillSwitchAction(TRUE, gamma_red_size_factor, "red",
                          <<"GAMMA_RED_THROTTLE", "GAMMA_RED_DRAWDOWN_KILL">>)
    ELSE KillSwitchAction(FALSE, gamma_red_size_factor, "red", <<"GAMMA_RED_THROTTLE">>)

\* KillSwitch.evaluate
evaluate(gamma_risk, total_drawdown) ==
    IF gamma_risk <= gamma_green_threshold
    THEN KillSwitchAction(FALSE, SfDen, "green", <<>>)
    ELSE IF gamma_risk <= gamma_red_threshold
    THEN KillSwitchAction(FALSE, gamma_yellow_size_factor, "yellow", <<"GAMMA_YELLOW_THROTTLE">>)
    ELSE IF DrawdownGt(total_drawdown, kill_drawdown_threshold)
    THEN KillSwitchAction(TRUE, gamma_red_size_factor, "red",
                          <<"GAMMA_RED_THROTTLE", "GAMMA_RED_DRAWDOWN_KILL">>)
    ELSE KillSwitchAction(FALSE, gamma_red_size_factor, "red", <<"GAMMA_RED_THROTTLE">>)

(***************************************************************************)
(* analytics/exposure.py, risk/limits.py                                   *)
(***************************************************************************)
max_capital_at_risk == 20
max_leverage == 6
max_abs_gamma == 75
max_abs_vega == 300

compute_exposures(contracts, shares, spot_price, option_price, option_delta, option_gamma, option_vega) ==
    LET option_notional == Abs(contracts * option_price * CONTRACT_MULTIPLIER)
        hedge_notional == Abs(shares * spot_price)
    IN  [delta_num |-> contracts * option_delta * CONTRACT_MULTIPLIER + shares * DeltaDen,
         gamma_exposure |-> contracts * option_gamma,
         vega_exposure |-> contracts * option_vega,
         option_notional |-> option_notional,
         hedge_notional |-> hedge_notional,
         notional_exposure |-> option_notional + hedge_notional]

\* The limiter without the check of the projected equity.
trade_allowed_any_equity(projected_option_contracts, option_price, projected_notional, projected_gamma_abs, projected_vega_abs, projected_equity) ==
    IF Abs(projected_option_contracts * option_price * CONTRACT_MULTIPLIER) * PctDen
            > max_capital_at_risk * projected_equity
    THEN [allowed |-> FALSE, reason |-> "Blocked: capital-at-risk limit breached"]
    ELSE IF projected_notional > max_leverage * projected_equity
    THEN [allowed |-> FALSE, reason |-> "Blocked: leverage limit breached"]
    ELSE IF projected_gamma_abs > max_abs_gamma
    THEN [allowed |-> FALSE, reason |-> "Blocked: gamma limit breached"]
    ELSE IF projected_vega_abs > max_abs_vega
    THEN [allowed |-> FALSE, reason |-> "Blocked: vega limit breached"]
    ELSE [allowed |-> TRUE, reason |-> ""]

\* The limiter with the leverage check ahead of the capital-at-risk check.
trade_allowed_leverage_first(projected_option_contracts, option_price, projected_notional, projected_gamma_abs, projected_vega_abs, projected_equity) ==
    IF projected_equity <= 0
    THEN [allowed |-> FALSE, reason |-> "Equity exhausted"]
    ELSE IF projected_notional > max_leverage * projected_equity
    THEN [allowed |-> FALSE, reason |-> "Blocked: leverage limit breached"]
    ELSE IF Abs(projected_option_contracts * option_price * CONTRACT_MULTIPLIER) * PctDen
            > max_capital_at_risk * projected_equity
    THEN [allowed |-> FALSE, reason |-> "Blocked: capital-at-risk limit breached"]
    ELSE IF projected_gamma_abs > max_abs_gamma
    THEN [allowed |-> FALSE, reason |-> "Blocked: gamma limit breached"]
    ELSE IF projected_vega_abs > max_abs_vega
    THEN [allowed |-> FALSE, reason |-> "Blocked: vega limit breached"]
    ELSE [allowed |-> TRUE, reason |-> ""]

\* The limiter with a gamma test that rejects the exposures below the limit.
trade_allowed_gamma_floor(projected_option_contracts, option_price, projected_notional, projected_gamma_abs, projected_vega_abs, projected_equity) ==
    IF projected_equity <= 0
    THEN [allowed |-> FALSE, reason |-> "Equity exhausted"]
    ELSE IF Abs(projected_option_contracts * option_price * CONTRACT_MULTIPLIER) * PctDen
            > max_capital_at_risk * projected_equity
    THEN [allowed |-> FALSE, reason |-> "Blocked: capital-at-risk limit breached"]
    ELSE IF projected_notional > max_leverage * projected_equity
    THEN [allowed |-> FALSE, reason |-> "Blocked: leverage limit breached"]
    ELSE IF projected_gamma_abs < max_abs_gamma
    THEN [allowed |-> FALSE, reason |-> "Blocked: gamma limit breached"]
    ELSE IF projected_vega_abs > max_abs_vega
    THEN [allowed |-> FALSE, reason |-> "Blocked: vega limit breached"]
    ELSE [allowed |-> TRUE, reason |-> ""]

\* RiskLimits.trade_allowed (the ratios are compared after multiplying through by
\* the positive equity)
trade_allowed(projected_option_contracts, option_price, projected_notional, projected_gamma_abs, projected_vega_abs, projected_equity) ==
    IF projected_equity <= 0
    THEN [allowed |-> FALSE, reason |-> "Equity exhausted"]
    ELSE IF Abs(projected_option_contracts * option_price * CONTRACT_MULTIPLIER) * PctDen
            > max_capital_at_risk * projected_equity
    THEN [allowed |-> FALSE, reason |-> "Blocked: capital-at-risk limit breached"]
    ELSE IF projected_notional > max_leverage * projected_equity
    THEN [allowed |-> FALSE, reason |-> "Blocked: leverage limit breached"]
    ELSE IF projected_gamma_abs > max_abs_gamma
    THEN [allowed |-> FALSE, reason |-> "Blocked: gamma limit breached"]
    ELSE IF projected_vega_abs > max_abs_vega
    THEN [allowed |-> FALSE, reason |-> "Blocked: vega limit breached"]
    ELSE [allowed |-> TRUE, reason |-> ""]

(***************************************************************************)
(* main.py: gamma_risk_metric, evaluate_projected_trade,                   *)
(* clamp_target_to_risk_limits.  A market record m has the fields spot,    *)
(* option_mid, delta, gamma, vega.                                         *)
(***************************************************************************)
\* abs(gamma_exposure) * max(spot_price, 0.0) * 0.0001, with the spot in cents
gamma_risk_metric(gamma_exposure, spot_price) ==
    Abs(gamma_exposure) * Max(spot_price, 0)

\* int(round(-contracts * delta * 100.0))
HedgeSharesFor(contracts, option_delta) ==
    RoundHalfEven(-contracts * option_delta * CONTRACT_MULTIPLIER, DeltaDen)

\* the exposure of the projected position with its rounded hedge
ProjectedExposure(projected_option_contracts, m) ==
    compute_exposures(projected_option_contracts,
                      HedgeSharesFor(projected_option_contracts, m.delta),
                      m.spot, m.option_mid, m.delta, m.gamma, m.vega)

evaluate_projected_trade(projected_option_contracts, m, projected_equity) ==
    LET projected_hedge_shares == HedgeSharesFor(projected_option_contracts, m.delta)
        e == compute_exposures(projected_option_contracts, projected_hedge_shares,
                               m.spot, m.option_mid, m.delta, m.gamma, m.vega)
    IN  trade_allowed(projected_option_contracts, m.option_mid, e.notional_exposure,
                      Abs(e.gamma_exposure), Abs(e.vega_exposure), projected_equity)

RECURSIVE ClampSearch(_, _, _, _, _, _)
ClampSearch(sign, low, high, best_abs, m, projected_equity) ==
    IF low > high THEN best_abs
    ELSE LET mid == (low + high) \div 2
         IN  IF evaluate_projected_trade(sign * mid, m, projected_equity).allowed
             THEN ClampSearch(sign, mid + 1, high, mid, m, projected_equity)
             ELSE ClampSearch(sign, low, mid - 1, best_abs, m, projected_equity)

\* A clamp that drops the sign of the desired position.
clamp_unsigned(desired_contracts, m, projected_equity) ==
    IF desired_contracts = 0 THEN 0
    ELSE LET sign == IF desired_contracts > 0 THEN 1 ELSE -1
         IN  ClampSearch(sign, 0, Abs(desired_contracts), 0, m, projected_equity)

\* A clamp whose search starts with high = abs(desired_contracts) - 1.
clamp_below_desired(desired_contracts, m, projected_equity) ==
    IF desired_contracts = 0 THEN 0
    ELSE LET sign == IF desired_contracts > 0 THEN 1 ELSE -1
         IN  sign * ClampSearch(sign, 0, Abs(desired_contracts) - 1, 0, m, projected_equity)

\* the number of passes of "while low <= high" (one call of evaluate_projected_trade each)
RECURSIVE ClampProbes(_, _, _, _, _)
ClampProbes(sign, low, high, m, projected_equity) ==
    IF low > high THEN 0
    ELSE LET mid == (low + high) \div 2
         IN  IF evaluate_projected_trade(sign * mid, m, projected_equity).allowed
             THEN 1 + ClampProbes(sign, mid + 1, high, m, projected_equity)
             ELSE 1 + ClampProbes(sign, low, mid - 1, m, projected_equity)

clamp_target_to_risk_limits(desired_contracts, m, projected_equity) ==
    IF desired_contracts = 0 THEN 0
    ELSE LET sign == IF desired_contracts > 0 THEN 1 ELSE -1
         IN  sign * ClampSearch(sign, 0, Abs(desired_contracts), 0, m, projected_equity)

(***************************************************************************)
(* strategy/position_sizing.py                                             *)
(***************************************************************************)
long_vega_budget_ratio == 15
VegaRatioDen == 1000

\* max(0.0, min(size_factor, 1.0))
BoundedSize(size_factor) == Max(0, Min(size_factor, SfDen))

\* A sizer that forgets the sign of the signal.
target_option_contracts_unsigned(signal, option_price, capital_base, car_pct, size_factor) ==
    IF signal = 0 \/ option_price <= 0 \/ capital_base <= 0 THEN 0
    ELSE LET contracts == ((capital_base * car_pct * BoundedSize(size_factor))
                           \div (PctDen * SfDen)) \div (option_price * CONTRACT_MULTIPLIER)
         IN  IF contracts <= 0 THEN 0 ELSE contracts

\* int(risk_budget // per_contract_notional): the floor of a quotient of two
\* non-negative numbers, taken in two steps (floor(floor(a / b) / c) = floor(a / (b c)))
target_option_contracts(signal, option_price, capital_base, car_pct, size_factor) ==
    IF signal = 0 \/ option_price <= 0 \/ capital_base <= 0 THEN 0
    ELSE LET contracts == ((capital_base * car_pct * BoundedSize(size_factor))
                           \div (PctDen * SfDen)) \div (option_price * CONTRACT_MULTIPLIER)
         IN  IF contracts <= 0 THEN 0
             ELSE IF signal > 0 THEN contracts ELSE -contracts

\* capital_base is in cents and option_vega in 1/100, so per_contract_vega is
\* option_vega and the budget in vega units is capital_base / 100 * ratio * size
target_contracts_by_vega_budget(signal, capital_base, option_vega, vega_ratio, size_factor) ==
    IF signal = 0 \/ capital_base <= 0 \/ option_vega <= 0 THEN 0
    ELSE LET contracts == ((capital_base * Max(0, vega_ratio) * BoundedSize(size_factor))
                           \div (PctDen * VegaRatioDen * SfDen)) \div option_vega
         IN  IF contracts <= 0 THEN 0
             ELSE IF signal > 0 THEN contracts ELSE -contracts

(***************************************************************************)
(* Idle values of the variables a specification does not use               *)
(***************************************************************************)
IdlePure == call = [fn |-> "none"] /\ ret = NoRet
IdleRun == args = None /\ granularity = None /\ phase = None
IdleEngine ==
    /\ mode = None /\ signal_config = None /\ engine = None
    /\ decision = None /\ hist_len = 0 /\ bar_history = <<>>
IdleLoop ==
    /\ idx = 0 /\ cash = 0 /\ option_contracts = 0 /\ hedge_shares = 0
    /\ prev_spot = None /\ prev_option_mid = None /\ peak_equity = 0
    /\ pending_target_contracts = 0
    /\ adaptive_short_pause_remaining = 0 /\ adaptive_long_pause_remaining = 0
    /\ row = None /\ step_row = None /\ events = <<>>

\* One call of a pure function: the arguments are drawn by Init, the step applies it.
Apply(fn, value) ==
    /\ call.fn = fn
    /\ ~ret.done
    /\ ret' = Return(value)
    /\ UNCHANGED <<call, runVars, engineVars, loopVars>>

(***************************************************************************)
(* KillSwitch.evaluate on every gamma_risk around the two thresholds and   *)
(* every drawdown of 0 .. MaxDrawdownPct percent                           *)
(***************************************************************************)
MaxDrawdownPct == 25
MaxGammaOver == 2

GammaRiskVals ==
    {0} \cup {gamma_green_threshold + k : k \in -1 .. 1}
        \cup {gamma_red_threshold + k : k \in -1 .. MaxGammaOver}
DrawdownVals == {[num |-> n, den |-> PctDen] : n \in 0 .. MaxDrawdownPct}

InitKill ==
    /\ call \in [fn : {"evaluate"}, gamma_risk : GammaRiskVals, total_drawdown : DrawdownVals]
    /\ ret = NoRet
    /\ IdleRun /\ IdleEngine /\ IdleLoop

KillEvaluate == Apply("evaluate", evaluate(call.gamma_risk, call.total_drawdown))

SpecKill == InitKill /\ [][KillEvaluate]_vars

(***************************************************************************)
(* RiskLimits.trade_allowed on independent arguments                       *)
(***************************************************************************)
INITIAL_CAPITAL == 1000000

LimitContracts == {0, 5, 12}
LimitNotionals == {0, max_leverage * INITIAL_CAPITAL, max_leverage * INITIAL_CAPITAL + 1}
LimitGammas == {0, max_abs_gamma, max_abs_gamma + 1}
LimitVegas == {max_abs_vega, max_abs_vega + 1}
LimitEquities == {-1, 0, INITIAL_CAPITAL}

InitTradeAllowed ==
    /\ call \in [fn : {"trade_allowed"}, projected_option_contracts : LimitContracts,
                 option_price : {200}, projected_notional : LimitNotionals,
                 projected_gamma_abs : LimitGammas, projected_vega_abs : LimitVegas,
                 projected_equity : LimitEquities]
    /\ ret = NoRet
    /\ IdleRun /\ IdleEngine /\ IdleLoop

TradeAllowed ==
    Apply("trade_allowed",
          trade_allowed(call.projected_option_contracts, call.option_price,
                        call.projected_notional, call.projected_gamma_abs,
                        call.projected_vega_abs, call.projected_equity))

SpecTradeAllowed == InitTradeAllowed /\ [][TradeAllowed]_vars

(***************************************************************************)
(* clamp_target_to_risk_limits on desired positions of -MaxDesired ..      *)
(* MaxDesired contracts                                                    *)
(***************************************************************************)
MaxDesired == 12

Market(spot, option_mid, delta, gamma, vega) ==
    [spot |-> spot, option_mid |-> option_mid, delta |-> delta, gamma |-> gamma, vega |-> vega]

ClampMarkets ==
    { Market(10000, 200, 500, 5, 20),    \* capital at risk binds first
      Market(10000, 100, 537, 20, 20),   \* gamma binds first, hedge shares are rounded
      Market(50000, 100, 500, 5, 20),    \* leverage binds first
      Market(10000, 100, 300, 5, 70) }   \* vega binds first
ClampEquities == {-500, 0, 400000, INITIAL_CAPITAL}

InitClamp ==
    /\ call \in [fn : {"clamp_target_to_risk_limits"},
                 desired_contracts : -MaxDesired .. MaxDesired,
                 m : ClampMarkets, projected_equity : ClampEquities]
    /\ ret = NoRet
    /\ IdleRun /\ IdleEngine /\ IdleLoop

Clamp ==
    Apply("clamp_target_to_risk_limits",
          clamp_target_to_risk_limits(call.desired_contracts, call.m, call.projected_equity))

SpecClamp == InitClamp /\ [][Clamp]_vars

(***************************************************************************)
(* evaluate_projected_trade on positions of -MaxDesired .. MaxDesired      *)
(* contracts, also on rows with a negative price or negative greeks        *)
(***************************************************************************)
EvaluateMarkets ==
    ClampMarkets \cup
        { Market(-500, 200, 537, 5, 20),
          Market(10000, -100, -537, -5, -20),
          Market(100000, 24, 5, 20, 1) }   \* gamma binds, the hedge rounds half to even

InitEvaluate ==
    /\ call \in [fn : {"evaluate_projected_trade"},
                 projected_option_contracts : -MaxDesired .. MaxDesired,
                 m : EvaluateMarkets, projected_equity : ClampEquities]
    /\ ret = NoRet
    /\ IdleRun /\ IdleEngine /\ IdleLoop

Evaluate ==
    Apply("evaluate_projected_trade",
          [allowed |-> evaluate_projected_trade(call.projected_option_contracts, call.m,
                                                call.projected_equity).allowed,
           exposure |-> ProjectedExposure(call.projected_option_contracts, call.m)])

SpecEvaluate == InitEvaluate /\ [][Evaluate]_vars

(***************************************************************************)
(* The two position sizers                                                 *)
(***************************************************************************)
MaxSizeFactor == 9

SizerSignals == {-1, 0, 1}
SizerPrices == {-200, 0, 200, 20000}
SizerVegas == {-20, 0, 20, 2000}
SizerCapitals == {-100, 0, 50000, INITIAL_CAPITAL}
SizerFactors == {-1, 0, 2} \cup {SfDen, MaxSizeFactor}

InitSizer ==
    /\ \/ call \in [fn : {"target_option_contracts"}, signal : SizerSignals,
                    option_price : SizerPrices, capital_base : SizerCapitals,
                    max_capital_at_risk : {max_capital_at_risk},
                    size_factor : SizerFactors]
       \/ call \in [fn : {"target_contracts_by_vega_budget"}, signal : SizerSignals,
                    capital_base : SizerCapitals, option_vega : SizerVegas,
                    max_abs_vega_ratio : {long_vega_budget_ratio},
                    size_factor : SizerFactors]
    /\ ret = NoRet
    /\ IdleRun /\ IdleEngine /\ IdleLoop

TargetOptionContracts ==
    Apply("target_option_contracts",
          target_option_contracts(call.signal, call.option_price, call.capital_base,
                                  call.max_capital_at_risk, call.size_factor))

TargetContractsByVegaBudget ==
    Apply("target_contracts_by_vega_budget",
          target_contracts_by_vega_budget(call.signal, call.capital_base, call.option_vega,
                                          call.max_abs_vega_ratio, call.size_factor))

SpecSizer == InitSizer /\ [][TargetOptionContracts \/ TargetContractsByVegaBudget]_vars

(***************************************************************************)
(* strategy/signal.py: SignalConfig (the fields the three strategy modes   *)
(* read), and main.py: the presets, the validation of run() and            *)
(* resolve_signal_config                                                   *)
(***************************************************************************)
DEFAULT_SIGNAL_CONFIG ==
    [rv_short_window |-> 30, rv_medium_window |-> 240, trend_window |-> 120,
     short_edge_threshold |-> 200, short_edge_collapse_tolerance |-> 50,
     short_trend_threshold |-> 40, short_jump_threshold |-> 60,
     short_rv_change_threshold |-> 600,
     cooldown_bars |-> 30,
     adaptive_enter_persist_bars |-> 3, adaptive_exit_persist_bars |-> 2,
     adaptive_pause_bars |-> 30,
     adaptive_short_edge_enter |-> 200, adaptive_short_edge_exit |-> 100,
     adaptive_short_trend_enter |-> 40, adaptive_short_trend_exit |-> 60,
     adaptive_vov_low |-> 30, adaptive_vov_high |-> 60, adaptive_vov_exit |-> 40,
     adaptive_long_cheapness_enter |-> 30, adaptive_long_cheapness_exit |-> 15,
     adaptive_long_trend_max |-> 80, adaptive_confidence_buffer |-> 10]

daily_signal_preset ==
    [rv_short_window |-> 5, rv_medium_window |-> 20, trend_window |-> 20,
     short_edge_threshold |-> 50, short_edge_collapse_tolerance |-> 200,
     short_trend_threshold |-> 300, short_jump_threshold |-> 300,
     short_rv_change_threshold |-> 2000,
     cooldown_bars |-> 3,
     adaptive_enter_persist_bars |-> 2, adaptive_exit_persist_bars |-> 2,
     adaptive_pause_bars |-> 2,
     adaptive_short_edge_enter |-> 200, adaptive_short_edge_exit |-> 0,
     adaptive_short_trend_enter |-> 150, adaptive_short_trend_exit |-> 300,
     adaptive_vov_low |-> 100, adaptive_vov_high |-> 200, adaptive_vov_exit |-> 150,
     adaptive_long_cheapness_enter |-> -400, adaptive_long_cheapness_exit |-> -400,
     adaptive_long_trend_max |-> 500, adaptive_confidence_buffer |-> 0]

SignalFields == DOMAIN DEFAULT_SIGNAL_CONFIG

\* a warmup of the short window only
min_warmup_bars_short_window(c) == c.rv_short_window

\* a warmup that ends one bar early
min_warmup_bars_one_less(c) ==
    Max(c.rv_short_window, Max(c.rv_medium_window, c.trend_window)) - 1

min_warmup_bars(c) == Max(c.rv_short_window, Max(c.rv_medium_window, c.trend_window))

\* The checks of run() on the signal arguments: TRUE when none raises ValueError.
\* The same bounds, read on a SignalConfig, are the bounds a run relies on.
SignalBoundsOk(a) ==
    /\ ~(a.rv_short_window <= 0 \/ a.rv_medium_window <= 0)
    /\ ~(a.rv_short_window > a.rv_medium_window)
    /\ ~(a.trend_window <= 0)
    /\ ~(a.short_edge_threshold < 0)
    /\ ~(a.adaptive_enter_persist_bars <= 0)
    /\ ~(a.adaptive_exit_persist_bars <= 0)
    /\ ~(a.adaptive_pause_bars < 0)
    /\ ~(a.adaptive_short_edge_enter < 0 \/ a.adaptive_short_edge_exit < 0)
    /\ ~(a.adaptive_short_edge_exit > a.adaptive_short_edge_enter)
    /\ ~(a.adaptive_short_trend_enter < 0 \/ a.adaptive_short_trend_exit < 0)
    /\ ~(a.adaptive_short_trend_exit < a.adaptive_short_trend_enter)
    /\ ~(a.adaptive_vov_low < 0 \/ a.adaptive_vov_high < 0 \/ a.adaptive_vov_exit < 0)
    /\ ~(a.adaptive_vov_high <= a.adaptive_vov_low)
    /\ a.adaptive_vov_low <= a.adaptive_vov_exit /\ a.adaptive_vov_exit <= a.adaptive_vov_high
    /\ ~(a.adaptive_long_cheapness_exit > a.adaptive_long_cheapness_enter)
    /\ ~(a.adaptive_long_trend_max < 0)
    /\ ~(a.adaptive_confidence_buffer < 0)
    /\ ~(a.cooldown_bars < 0)

signal_config_from_args(a) == [f \in SignalFields |-> a[f]]

signal_args_match_defaults(a) == \A f \in SignalFields : a[f] = DEFAULT_SIGNAL_CONFIG[f]

daily_signal_with_user_overrides(a) ==
    [f \in SignalFields |->
        IF a[f] # DEFAULT_SIGNAL_CONFIG[f] THEN a[f] ELSE daily_signal_preset[f]]

resolve_signal_config(a, gran) ==
    IF gran # "daily" THEN signal_config_from_args(a)
    ELSE IF signal_args_match_defaults(a) THEN daily_signal_preset
    ELSE daily_signal_with_user_overrides(a)

(***************************************************************************)
(* strategy/signal.py: RegimeSignalEngine.  The metrics of _base_metrics   *)
(* that depend on the market series (edge, trend_strength,                 *)
(* jump_abs_return, rv_change) are inputs x of decide; edge_velocity is    *)
(* computed from prev_edge as the code does.  Values are in 1e-4.          *)
(***************************************************************************)
NoEdge == [none |-> TRUE, value |-> 0]

SomeEdge(v) == [none |-> FALSE, value |-> v]

EngineInit ==
    [prev_edge |-> NoEdge, prev_stance |-> "FLAT", cooldown_remaining |-> 0,
     adaptive_state |-> "FLAT", adaptive_pause_remaining |-> 0,
     adaptive_short_enter_count |-> 0, adaptive_long_enter_count |-> 0,
     adaptive_short_exit_count |-> 0, adaptive_long_exit_count |-> 0,
     adaptive_pause_reason |-> ""]

_signal_for_stance(stance) ==
    IF stance = "LONG_VOL" THEN 1 ELSE IF stance = "SHORT_VOL" THEN -1 ELSE 0

\* force_pause with the new pause length written over the old one
force_pause_overwrite(the_mode, e, bars, reason) ==
    LET pause_bars == Max(0, bars)
    IN  IF pause_bars <= 0 THEN e
        ELSE IF the_mode \in {"adaptive", "long"}
        THEN [e EXCEPT !.adaptive_state = "PAUSED",
                       !.adaptive_pause_remaining = pause_bars,
                       !.adaptive_short_enter_count = 0,
                       !.adaptive_long_enter_count = 0,
                       !.adaptive_short_exit_count = 0,
                       !.adaptive_long_exit_count = 0,
                       !.adaptive_pause_reason = reason,
                       !.prev_stance = "PAUSED"]
        ELSE [e EXCEPT !.cooldown_remaining = pause_bars]

\* RegimeSignalEngine.force_pause: the engine afterwards
force_pause(the_mode, e, bars, reason) ==
    LET pause_bars == Max(0, bars)
    IN  IF pause_bars <= 0 THEN e
        ELSE IF the_mode \in {"adaptive", "long"}
        THEN [e EXCEPT !.adaptive_state = "PAUSED",
                       !.adaptive_pause_remaining = Max(e.adaptive_pause_remaining, pause_bars),
                       !.adaptive_short_enter_count = 0,
                       !.adaptive_long_enter_count = 0,
                       !.adaptive_short_exit_count = 0,
                       !.adaptive_long_exit_count = 0,
                       !.adaptive_pause_reason = reason,
                       !.prev_stance = "PAUSED"]
        ELSE [e EXCEPT !.cooldown_remaining = Max(e.cooldown_remaining, pause_bars)]

_adaptive_short_enter_ok(c, x) ==
    /\ x.edge > c.adaptive_short_edge_enter
    /\ x.trend_strength < c.adaptive_short_trend_enter
    /\ x.rv_change < c.adaptive_vov_low

_adaptive_short_exit_ok(c, x) ==
    \/ x.edge < c.adaptive_short_edge_exit
    \/ x.trend_strength > c.adaptive_short_trend_exit
    \/ x.rv_change > c.adaptive_vov_high

\* the long-enter predicate without its test of rv_change
_adaptive_long_enter_ok_any_vov(c, x) ==
    /\ -x.edge > c.adaptive_long_cheapness_enter
    /\ x.trend_strength < c.adaptive_long_trend_max

_adaptive_long_enter_ok(c, x) ==
    /\ -x.edge > c.adaptive_long_cheapness_enter
    /\ x.rv_change > c.adaptive_vov_high
    /\ x.trend_strength < c.adaptive_long_trend_max

_adaptive_long_exit_ok(c, x) ==
    \/ -x.edge < c.adaptive_long_cheapness_exit
    \/ x.rv_change < c.adaptive_vov_exit

_base_metrics(e, x) ==
    [edge |-> x.edge,
     edge_velocity |-> IF e.prev_edge.none THEN 0 ELSE x.edge - e.prev_edge.value,
     trend_strength |-> x.trend_strength,
     jump_abs_return |-> x.jump_abs_return,
     rv_change |-> x.rv_change]

\* what a branch of decide leaves behind: the engine, and the locals stance,
\* reason and cooldown_active
Branch(e, stance, reason, cooldown_active) ==
    [engine |-> e, stance |-> stance, reason |-> reason, cooldown_active |-> cooldown_active]

\* A pause that is left for FLAT with one bar of it still to run.
DecidePaused_left_early(e) ==
    LET remaining == IF e.adaptive_pause_remaining > 0
                     THEN e.adaptive_pause_remaining - 1
                     ELSE e.adaptive_pause_remaining
        pause_reason == IF e.adaptive_pause_reason # "" THEN e.adaptive_pause_reason ELSE "cooldown"
        e1 == [e EXCEPT !.adaptive_pause_remaining = remaining,
                        !.cooldown_remaining = remaining]
    IN  IF remaining <= 1
        THEN Branch([e1 EXCEPT !.adaptive_state = "FLAT", !.adaptive_pause_reason = ""],
                    "FLAT", "FLAT: pause complete", TRUE)
        ELSE Branch(e1, "PAUSED", "PAUSED: " \o pause_reason, TRUE)

\* the branch adaptive_state == "PAUSED" (the same statements in the adaptive and
\* in the long mode)
DecidePaused(e) ==
    LET remaining == IF e.adaptive_pause_remaining > 0
                     THEN e.adaptive_pause_remaining - 1
                     ELSE e.adaptive_pause_remaining
        pause_reason == IF e.adaptive_pause_reason # "" THEN e.adaptive_pause_reason ELSE "cooldown"
        e1 == [e EXCEPT !.adaptive_pause_remaining = remaining,
                        !.cooldown_remaining = remaining]
    IN  IF remaining <= 0
        THEN Branch([e1 EXCEPT !.adaptive_state = "FLAT", !.adaptive_pause_reason = ""],
                    "FLAT", "FLAT: pause complete", TRUE)
        ELSE Branch(e1, "PAUSED", "PAUSED: " \o pause_reason, TRUE)

\* EnterPause with a pause of one bar at most
EnterPause_one_bar(c, e, pause_reason) ==
    LET remaining == Min(1, Max(0, c.adaptive_pause_bars))
        e1 == [e EXCEPT !.adaptive_state = "PAUSED",
                        !.adaptive_pause_remaining = remaining,
                        !.adaptive_pause_reason = pause_reason,
                        !.cooldown_remaining = remaining]
    IN  Branch(e1, IF remaining > 0 THEN "PAUSED" ELSE "FLAT",
               "PAUSED: " \o pause_reason, remaining > 0)

\* the exit of a regime into the pause, once the exit count has persisted
EnterPause(c, e, pause_reason) ==
    LET remaining == Max(0, c.adaptive_pause_bars)
        e1 == [e EXCEPT !.adaptive_state = "PAUSED",
                        !.adaptive_pause_remaining = remaining,
                        !.adaptive_pause_reason = pause_reason,
                        !.cooldown_remaining = remaining]
    IN  Branch(e1, IF remaining > 0 THEN "PAUSED" ELSE "FLAT",
               "PAUSED: " \o pause_reason, remaining > 0)

\* DecideShortActive with an exit counter that a failing bar leaves as it is
DecideShortActive_no_reset(c, e, x) ==
    LET count == e.adaptive_short_exit_count + (IF _adaptive_short_exit_ok(c, x) THEN 1 ELSE 0)
    IN  IF count >= Max(1, c.adaptive_exit_persist_bars) /\ _adaptive_short_exit_ok(c, x)
        THEN EnterPause(c, [e EXCEPT !.adaptive_short_exit_count = 0,
                                     !.adaptive_short_enter_count = 0,
                                     !.adaptive_long_enter_count = 0], "short exit")
        ELSE Branch([e EXCEPT !.adaptive_short_exit_count = count],
                    "SHORT_VOL", "SHORT: regime active", FALSE)

\* the branch adaptive_state == "SHORT_VOL" of the adaptive mode
DecideShortActive(c, e, x) ==
    LET count == IF _adaptive_short_exit_ok(c, x) THEN e.adaptive_short_exit_count + 1 ELSE 0
    IN  IF count >= Max(1, c.adaptive_exit_persist_bars)
        THEN EnterPause(c, [e EXCEPT !.adaptive_short_exit_count = 0,
                                     !.adaptive_short_enter_count = 0,
                                     !.adaptive_long_enter_count = 0], "short exit")
        ELSE Branch([e EXCEPT !.adaptive_short_exit_count = count],
                    "SHORT_VOL", "SHORT: regime active", FALSE)

\* the branch adaptive_state == "LONG_VOL"; the long mode leaves
\* adaptive_short_enter_count alone
DecideLongActive(the_mode, c, e, x) ==
    LET count == IF _adaptive_long_exit_ok(c, x) THEN e.adaptive_long_exit_count + 1 ELSE 0
        short_enter_count == IF the_mode = "adaptive" THEN 0 ELSE e.adaptive_short_enter_count
    IN  IF count >= Max(1, c.adaptive_exit_persist_bars)
        THEN EnterPause(c, [e EXCEPT !.adaptive_long_exit_count = 0,
                                     !.adaptive_short_enter_count = short_enter_count,
                                     !.adaptive_long_enter_count = 0], "long exit")
        ELSE Branch([e EXCEPT !.adaptive_long_exit_count = count],
                    "LONG_VOL", "LONG: regime active", FALSE)

\* DecideAdaptiveFlat with enter counters that a failing bar leaves as they are
DecideAdaptiveFlat_no_reset(c, b, x) ==
    LET e == b.engine
        enter_persist == Max(1, c.adaptive_enter_persist_bars)
        short_count == e.adaptive_short_enter_count + (IF _adaptive_short_enter_ok(c, x) THEN 1 ELSE 0)
        long_count == e.adaptive_long_enter_count + (IF _adaptive_long_enter_ok(c, x) THEN 1 ELSE 0)
        selected_stance ==
            IF short_count >= enter_persist /\ _adaptive_short_enter_ok(c, x) THEN "SHORT_VOL"
            ELSE IF long_count >= enter_persist /\ _adaptive_long_enter_ok(c, x) THEN "LONG_VOL"
            ELSE "FLAT"
        e1 == [e EXCEPT !.adaptive_short_enter_count = short_count,
                        !.adaptive_long_enter_count = long_count]
        entered == [e1 EXCEPT !.adaptive_state = selected_stance,
                              !.adaptive_short_exit_count = 0,
                              !.adaptive_long_exit_count = 0]
    IN  IF selected_stance = "SHORT_VOL"
        THEN Branch(entered, "SHORT_VOL", "SHORT: adaptive enter persisted", b.cooldown_active)
        ELSE IF selected_stance = "LONG_VOL"
        THEN Branch(entered, "LONG_VOL", "LONG: adaptive enter persisted", b.cooldown_active)
        ELSE Branch(e1, "FLAT", "FLAT: no adaptive regime", b.cooldown_active)

\* the block "if self.adaptive_state == 'FLAT'" of the adaptive mode; it follows the
\* if/elif chain on adaptive_state, so it also runs on the bar the pause completes
DecideAdaptiveFlat(c, b, x) ==
    LET e == b.engine
        enter_persist == Max(1, c.adaptive_enter_persist_bars)
        short_count == IF _adaptive_short_enter_ok(c, x) THEN e.adaptive_short_enter_count + 1 ELSE 0
        long_count == IF _adaptive_long_enter_ok(c, x) THEN e.adaptive_long_enter_count + 1 ELSE 0
        short_strength == (x.edge - c.adaptive_short_edge_enter)
                          + (c.adaptive_short_trend_enter - x.trend_strength)
                          + (c.adaptive_vov_low - x.rv_change)
        long_strength == ((-x.edge) - c.adaptive_long_cheapness_enter)
                         + (x.rv_change - c.adaptive_vov_high)
                         + (c.adaptive_long_trend_max - x.trend_strength)
        selected_stance ==
            IF short_count >= enter_persist /\ long_count >= enter_persist
            THEN IF Abs(short_strength - long_strength) >= c.adaptive_confidence_buffer
                 THEN IF short_strength >= long_strength THEN "SHORT_VOL" ELSE "LONG_VOL"
                 ELSE "FLAT"
            ELSE IF short_count >= enter_persist THEN "SHORT_VOL"
            ELSE IF long_count >= enter_persist THEN "LONG_VOL"
            ELSE "FLAT"
        e1 == [e EXCEPT !.adaptive_short_enter_count = short_count,
                        !.adaptive_long_enter_count = long_count]
        entered == [e1 EXCEPT !.adaptive_state = selected_stance,
                              !.adaptive_short_exit_count = 0,
                              !.adaptive_long_exit_count = 0]
    IN  IF selected_stance = "SHORT_VOL"
        THEN Branch(entered, "SHORT_VOL", "SHORT: adaptive enter persisted", b.cooldown_active)
        ELSE IF selected_stance = "LONG_VOL"
        THEN Branch(entered, "LONG_VOL", "LONG: adaptive enter persisted", b.cooldown_active)
        ELSE Branch(e1, "FLAT", "FLAT: no adaptive regime", b.cooldown_active)

\* elif self.mode == "adaptive"
DecideAdaptive(c, e, x) ==
    LET b == IF e.adaptive_state = "PAUSED" THEN DecidePaused(e)
             ELSE IF e.adaptive_state = "SHORT_VOL" THEN DecideShortActive(c, e, x)
             ELSE IF e.adaptive_state = "LONG_VOL" THEN DecideLongActive("adaptive", c, e, x)
             ELSE Branch(e, "FLAT", "FLAT: warmup", FALSE)
        b1 == IF b.engine.adaptive_state = "FLAT" THEN DecideAdaptiveFlat(c, b, x) ELSE b
    IN  [b1 EXCEPT !.engine.cooldown_remaining = b1.engine.adaptive_pause_remaining]

\* the else branch of the long mode: any state that is neither PAUSED nor LONG_VOL
DecideLongFlat(c, e, x) ==
    LET long_count == IF _adaptive_long_enter_ok(c, x) THEN e.adaptive_long_enter_count + 1 ELSE 0
        e1 == [e EXCEPT !.adaptive_state = "FLAT", !.adaptive_long_enter_count = long_count]
    IN  IF long_count >= Max(1, c.adaptive_enter_persist_bars)
        THEN Branch([e1 EXCEPT !.adaptive_state = "LONG_VOL", !.adaptive_long_exit_count = 0],
                    "LONG_VOL", "LONG: adaptive enter persisted", FALSE)
        ELSE Branch(e1, "FLAT", "FLAT: no long adaptive regime", FALSE)

\* elif self.mode == "long": one if/elif/else chain, no entry on the bar the pause completes
DecideLong(c, e, x) ==
    LET b == IF e.adaptive_state = "PAUSED" THEN DecidePaused(e)
             ELSE IF e.adaptive_state = "LONG_VOL" THEN DecideLongActive("long", c, e, x)
             ELSE DecideLongFlat(c, e, x)
    IN  [b EXCEPT !.engine.cooldown_remaining = b.engine.adaptive_pause_remaining]

\* the pricing filter without the edge-velocity test
ShortPricingOk_edge_only(c, metrics) == metrics.edge >= c.short_edge_threshold

ShortPricingOk(c, metrics) ==
    /\ metrics.edge >= c.short_edge_threshold
    /\ metrics.edge_velocity >= -c.short_edge_collapse_tolerance

ShortPathOk(c, metrics) ==
    /\ metrics.trend_strength <= c.short_trend_threshold
    /\ metrics.jump_abs_return <= c.short_jump_threshold
    /\ metrics.rv_change <= c.short_rv_change_threshold

\* elif self.cooldown_remaining > 0 ... elif self.mode == "short"
\* A short branch that looks at the filters before the cooldown.
DecideShort_filters_first(c, e, metrics) ==
    IF ShortPricingOk(c, metrics) /\ ShortPathOk(c, metrics)
    THEN Branch(e, "SHORT_VOL", "SHORT: edge+path OK", FALSE)
    ELSE IF e.cooldown_remaining > 0
    THEN Branch([e EXCEPT !.cooldown_remaining = e.cooldown_remaining - 1],
                "FLAT", "FLAT: cooldown", TRUE)
    ELSE Branch(e, "FLAT", "FLAT: short gate fail (pricing+path)", FALSE)

DecideShort(c, e, metrics) ==
    IF e.cooldown_remaining > 0
    THEN Branch([e EXCEPT !.cooldown_remaining = e.cooldown_remaining - 1],
                "FLAT", "FLAT: cooldown", TRUE)
    ELSE IF ShortPricingOk(c, metrics) /\ ShortPathOk(c, metrics)
    THEN Branch(e, "SHORT_VOL", "SHORT: edge+path OK", FALSE)
    ELSE Branch(e, "FLAT",
                IF ShortPricingOk(c, metrics) THEN "FLAT: short gate fail (path)"
                ELSE IF ShortPathOk(c, metrics) THEN "FLAT: short gate fail (pricing)"
                ELSE "FLAT: short gate fail (pricing+path)", FALSE)

\* the four filter flags of the decision
Filters(pricing_ok, path_ok, instability_ok, two_way_ok) ==
    [pricing_filter_passed |-> pricing_ok, path_filter_passed |-> path_ok,
     instability_filter_passed |-> instability_ok, two_way_filter_passed |-> two_way_ok]

DecideFilters(the_mode, c, e, n, metrics) ==
    IF n < min_warmup_bars(c) THEN Filters(FALSE, TRUE, TRUE, TRUE)
    ELSE IF the_mode = "adaptive"
    THEN Filters(_adaptive_short_enter_ok(c, metrics) \/ _adaptive_long_enter_ok(c, metrics),
                 _adaptive_short_enter_ok(c, metrics),
                 _adaptive_long_enter_ok(c, metrics),
                 metrics.trend_strength < c.adaptive_long_trend_max)
    ELSE IF the_mode = "long"
    THEN Filters(_adaptive_long_enter_ok(c, metrics), TRUE,
                 _adaptive_long_enter_ok(c, metrics),
                 metrics.trend_strength < c.adaptive_long_trend_max)
    ELSE IF e.cooldown_remaining > 0 THEN Filters(FALSE, TRUE, TRUE, TRUE)
    ELSE Filters(ShortPricingOk(c, metrics), ShortPathOk(c, metrics), TRUE, TRUE)

\* RegimeSignalEngine.decide on a history of n bars (n = len(price_series)); the
\* strategy modes are short, long and adaptive, so the legacy long gate (the last
\* else of the chain) is never taken.  Returns the engine afterwards and the
\* SignalDecision.
decide(the_mode, c, e, n, x) ==
    LET metrics == _base_metrics(e, x)
        e0 == [e EXCEPT !.prev_edge = SomeEdge(x.edge)]
        b == IF n < min_warmup_bars(c) THEN Branch(e0, "FLAT", "FLAT: warmup", FALSE)
             ELSE IF the_mode = "adaptive" THEN DecideAdaptive(c, e0, metrics)
             ELSE IF the_mode = "long" THEN DecideLong(c, e0, metrics)
             ELSE DecideShort(c, e0, metrics)
        arm == /\ the_mode = "short"
               /\ b.stance = "FLAT"
               /\ e.prev_stance # "FLAT"
               /\ c.cooldown_bars > 0
        e1 == [b.engine EXCEPT !.cooldown_remaining = IF arm THEN c.cooldown_bars ELSE @,
                               !.prev_stance = b.stance]
    IN  [engine |-> e1,
         decision |-> [stance |-> b.stance,
                       signal |-> _signal_for_stance(b.stance),
                       reason |-> b.reason,
                       filters |-> DecideFilters(the_mode, c, e, n, metrics),
                       edge_velocity |-> metrics.edge_velocity,
                       cooldown_remaining |-> e1.cooldown_remaining,
                       cooldown_active |-> b.cooldown_active]]

(***************************************************************************)
(* main.py, run_single_mode: the risk overlays of one bar.  The thresholds *)
(* are the defaults of parse_args, drawdowns in percent, the throttle      *)
(* factor in eighths.                                                      *)
(***************************************************************************)
global_drawdown_throttle_threshold == 10
global_drawdown_throttle_size_factor == 4
global_drawdown_kill_threshold == 20
long_pause_drawdown_threshold == 10
long_catastrophic_kill_threshold == 40

\* DrawdownTracker.peek
peek(peak_eq, equity) ==
    LET peak == Max(peak_eq, equity)
    IN  IF peak <= 0 THEN [num |-> 0, den |-> 1]
        ELSE [num |-> Max(0, peak - equity), den |-> peak]

Contains(seq, tag) == \E i \in 1 .. Len(seq) : seq[i] = tag

\* if tag not in risk_reasons: risk_reasons.append(tag)
AppendNew(seq, tag) == IF Contains(seq, tag) THEN seq ELSE Append(seq, tag)

Overlay(risk_reasons, effective_size_factor, flatten_for_risk, adaptive_pause_side, adaptive_pause_requires_invalid, adaptive_pause_reason) ==
    [risk_reasons |-> risk_reasons, effective_size_factor |-> effective_size_factor,
     flatten_for_risk |-> flatten_for_risk, adaptive_pause_side |-> adaptive_pause_side,
     adaptive_pause_requires_invalid |-> adaptive_pause_requires_invalid,
     adaptive_pause_reason |-> adaptive_pause_reason]

\* A global overlay whose tag takes the place of the reasons of the kill switch.
GlobalOverlay_replaces(o, dd, has_exposure, side, dedupe) ==
    IF DrawdownGe(dd, global_drawdown_kill_threshold) /\ has_exposure
    THEN [o EXCEPT !.flatten_for_risk = TRUE,
                   !.adaptive_pause_side = side,
                   !.adaptive_pause_reason = IF side = "" THEN "" ELSE "GLOBAL_DRAWDOWN_KILL",
                   !.risk_reasons = <<"GLOBAL_DRAWDOWN_KILL">>]
    ELSE IF DrawdownGe(dd, global_drawdown_throttle_threshold) /\ has_exposure
    THEN [o EXCEPT !.effective_size_factor =
                       (@ * global_drawdown_throttle_size_factor) \div SfDen,
                   !.risk_reasons = <<"GLOBAL_DRAWDOWN_THROTTLE">>]
    ELSE o

\* the global drawdown kill or throttle, for a mode whose exposure condition is has_exposure
GlobalOverlay(o, dd, has_exposure, side, dedupe) ==
    IF DrawdownGe(dd, global_drawdown_kill_threshold) /\ has_exposure
    THEN [o EXCEPT !.flatten_for_risk = TRUE,
                   !.adaptive_pause_side = side,
                   !.adaptive_pause_reason = IF side = "" THEN "" ELSE "GLOBAL_DRAWDOWN_KILL",
                   !.risk_reasons = AppendNew(@, "GLOBAL_DRAWDOWN_KILL")]
    ELSE IF DrawdownGe(dd, global_drawdown_throttle_threshold) /\ has_exposure
    THEN [o EXCEPT !.effective_size_factor =
                       (@ * global_drawdown_throttle_size_factor) \div SfDen,
                   !.risk_reasons = IF dedupe THEN AppendNew(@, "GLOBAL_DRAWDOWN_THROTTLE")
                                    ELSE Append(@, "GLOBAL_DRAWDOWN_THROTTLE")]
    ELSE o

\* the catastrophic kill or the drawdown pause of a long position
LongOverlay(o, dd, long_has_exposure) ==
    IF DrawdownGe(dd, long_catastrophic_kill_threshold) /\ long_has_exposure
    THEN [o EXCEPT !.flatten_for_risk = TRUE,
                   !.adaptive_pause_side = "long",
                   !.adaptive_pause_reason = "LONG_CATASTROPHIC_KILL",
                   !.risk_reasons = AppendNew(@, "LONG_CATASTROPHIC_KILL")]
    ELSE IF DrawdownGe(dd, long_pause_drawdown_threshold) /\ long_has_exposure
    THEN [o EXCEPT !.adaptive_pause_side = "long",
                   !.adaptive_pause_reason = "LONG_PAUSE_DRAWDOWN",
                   !.adaptive_pause_requires_invalid = TRUE,
                   !.risk_reasons = AppendNew(@, "LONG_PAUSE_DRAWDOWN")]
    ELSE o

\* if kill_action.flatten_positions and <exposure>: the pause of the gamma kill
\* (the long mode sets the side; the adaptive mode only if none is set yet)
KillOverlay(o, kill_action, has_exposure, side, keep_side) ==
    IF kill_action.flatten_positions /\ has_exposure
    THEN [o EXCEPT !.flatten_for_risk = TRUE,
                   !.adaptive_pause_side = IF keep_side /\ @ # "" THEN @ ELSE side,
                   !.adaptive_pause_reason = IF @ = "" THEN "GAMMA_RED_DRAWDOWN_KILL" ELSE @]
    ELSE o

\* the branches mode == "short", mode == "long" and else (adaptive)
RiskOverlay(the_mode, kill_action, dd, opening_option_contracts) ==
    LET o == Overlay(kill_action.reasons, kill_action.size_factor,
                     kill_action.flatten_positions, "", FALSE, "")
    IN  IF the_mode = "short" THEN GlobalOverlay(o, dd, TRUE, "", FALSE)
        ELSE IF the_mode = "long"
        THEN LET long_has_exposure == opening_option_contracts > 0
             IN  KillOverlay(LongOverlay(GlobalOverlay(o, dd, long_has_exposure, "long", TRUE),
                                         dd, long_has_exposure),
                             kill_action, long_has_exposure, "long", FALSE)
        ELSE LET adaptive_has_exposure == opening_option_contracts # 0
                 adaptive_side == IF opening_option_contracts < 0 THEN "short" ELSE "long"
             IN  KillOverlay(LongOverlay(GlobalOverlay(o, dd, adaptive_has_exposure,
                                                       adaptive_side, TRUE),
                                         dd, adaptive_side = "long" /\ adaptive_has_exposure),
                             kill_action, adaptive_has_exposure, adaptive_side, TRUE)

(***************************************************************************)
(* run_single_mode: the risk limiter in front of the execution,            *)
(* execution/trades.py and execution/hedge.py (cash, fees and slippage in  *)
(* cents)                                                                  *)
(***************************************************************************)
Limited(target_contracts, block_reason, limiter_events, consulted) ==
    [target_contracts |-> target_contracts, block_reason |-> block_reason,
     events |-> limiter_events, consulted |-> consulted]

\* A limiter that lets the clamp lose the sign of the target.
LimitTarget_unsigned(target, forced_derisk, opening_option_contracts, m, equity_before_trade) ==
    IF forced_derisk THEN Limited(target, "", <<>>, FALSE)
    ELSE LET t == evaluate_projected_trade(target, m, equity_before_trade)
             clamped_target == clamp_unsigned(target, m, equity_before_trade)
         IN  IF t.allowed THEN Limited(target, t.reason, <<>>, TRUE)
             ELSE IF Abs(target) < Abs(opening_option_contracts)
             THEN Limited(target, t.reason, <<"RISK_ALLOW_DERISK">>, TRUE)
             ELSE IF Abs(clamped_target) > Abs(opening_option_contracts)
             THEN Limited(clamped_target, "", <<"RISK_CLAMP">>, TRUE)
             ELSE Limited(opening_option_contracts, t.reason, <<"RISK_BLOCK">>, TRUE)

\* A limiter that takes the clamp result when it is as large as the opening position.
LimitTarget_clamp_not_smaller(target, forced_derisk, opening_option_contracts, m, equity_before_trade) ==
    IF forced_derisk THEN Limited(target, "", <<>>, FALSE)
    ELSE LET t == evaluate_projected_trade(target, m, equity_before_trade)
             clamped_target == clamp_target_to_risk_limits(target, m, equity_before_trade)
         IN  IF t.allowed THEN Limited(target, t.reason, <<>>, TRUE)
             ELSE IF Abs(target) < Abs(opening_option_contracts)
             THEN Limited(target, t.reason, <<"RISK_ALLOW_DERISK">>, TRUE)
             ELSE IF Abs(clamped_target) >= Abs(opening_option_contracts)
             THEN Limited(clamped_target, "", <<"RISK_CLAMP">>, TRUE)
             ELSE Limited(opening_option_contracts, t.reason, <<"RISK_BLOCK">>, TRUE)

\* A limiter that is consulted on a forced flatten too.
LimitTarget_on_flatten(target, forced_derisk, opening_option_contracts, m, equity_before_trade) ==
    LET t == evaluate_projected_trade(target, m, equity_before_trade)
        clamped_target == clamp_target_to_risk_limits(target, m, equity_before_trade)
    IN  IF t.allowed THEN Limited(target, t.reason, <<>>, TRUE)
        ELSE IF Abs(target) < Abs(opening_option_contracts)
        THEN Limited(target, t.reason, <<"RISK_ALLOW_DERISK">>, TRUE)
        ELSE IF Abs(clamped_target) > Abs(opening_option_contracts)
        THEN Limited(clamped_target, "", <<"RISK_CLAMP">>, TRUE)
        ELSE Limited(opening_option_contracts, t.reason, <<"RISK_BLOCK">>, TRUE)

\* A limiter whose RISK_BLOCK logs the event and lets the target through.
LimitTarget_block_logs_only(target, forced_derisk, opening_option_contracts, m, equity_before_trade) ==
    IF forced_derisk THEN Limited(target, "", <<>>, FALSE)
    ELSE LET t == evaluate_projected_trade(target, m, equity_before_trade)
             clamped_target == clamp_target_to_risk_limits(target, m, equity_before_trade)
         IN  IF t.allowed THEN Limited(target, t.reason, <<>>, TRUE)
             ELSE IF Abs(target) < Abs(opening_option_contracts)
             THEN Limited(target, t.reason, <<"RISK_ALLOW_DERISK">>, TRUE)
             ELSE IF Abs(clamped_target) > Abs(opening_option_contracts)
             THEN Limited(clamped_target, "", <<"RISK_CLAMP">>, TRUE)
             ELSE Limited(target, t.reason, <<"RISK_BLOCK">>, TRUE)

\* "if not forced_derisk: ..." : the target that is executed
LimitTarget(target, forced_derisk, opening_option_contracts, m, equity_before_trade) ==
    IF forced_derisk THEN Limited(target, "", <<>>, FALSE)
    ELSE LET t == evaluate_projected_trade(target, m, equity_before_trade)
             clamped_target == clamp_target_to_risk_limits(target, m, equity_before_trade)
         IN  IF t.allowed THEN Limited(target, t.reason, <<>>, TRUE)
             ELSE IF Abs(target) < Abs(opening_option_contracts)
             THEN Limited(target, t.reason, <<"RISK_ALLOW_DERISK">>, TRUE)
             ELSE IF Abs(clamped_target) > Abs(opening_option_contracts)
             THEN Limited(clamped_target, "", <<"RISK_CLAMP">>, TRUE)
             ELSE Limited(opening_option_contracts, t.reason, <<"RISK_BLOCK">>, TRUE)

\* 0.65 dollars a contract, 0.005 dollars (5 thousandths) a share
option_fee_per_contract == 65
option_slippage_bps == 5
hedge_fee_per_share == 5
MilliPerCent == 10
hedge_slippage_bps == 1
BpsDen == 10000

execute_option_trade(current_contracts, target_contracts, option_price, cash_in) ==
    LET trade_qty == target_contracts - current_contracts
        notional == Abs(trade_qty) * option_price * CONTRACT_MULTIPLIER
        fees == Abs(trade_qty) * option_fee_per_contract
        slippage == (notional * option_slippage_bps) \div BpsDen
    IN  [new_contracts |-> target_contracts,
         cash |-> cash_in - trade_qty * option_price * CONTRACT_MULTIPLIER - fees - slippage,
         fees |-> fees, slippage |-> slippage]

rebalance_delta_hedge(current_shares, target_shares, spot_price, cash_in) ==
    LET trade_shares == target_shares - current_shares
        notional == Abs(trade_shares) * spot_price
        fees == (Abs(trade_shares) * hedge_fee_per_share) \div MilliPerCent
        slippage == (notional * hedge_slippage_bps) \div BpsDen
    IN  [new_shares |-> target_shares,
         cash |-> cash_in - trade_shares * spot_price - fees - slippage,
         fees |-> fees, slippage |-> slippage]

(***************************************************************************)
(* run_single_mode: sizing of the next target and the strategy gates       *)
(***************************************************************************)
\* A sizing that queues the magnitude of the target.
NextTarget_magnitude(the_mode, d, m, equity, effective_size_factor) ==
    LET capital_base == Max(equity, 0)
    IN  IF d.signal < 0
        THEN Abs(target_option_contracts(-1, m.option_mid, capital_base,
                                         max_capital_at_risk, effective_size_factor))
        ELSE IF d.signal > 0
        THEN target_contracts_by_vega_budget(1, capital_base, m.vega, long_vega_budget_ratio,
                                             effective_size_factor)
        ELSE 0

NextTarget(the_mode, d, m, equity, effective_size_factor) ==
    LET capital_base == Max(equity, 0)
        by_capital(signal) == target_option_contracts(signal, m.option_mid, capital_base,
                                                      max_capital_at_risk, effective_size_factor)
        by_vega(signal) == target_contracts_by_vega_budget(signal, capital_base, m.vega,
                                                           long_vega_budget_ratio,
                                                           effective_size_factor)
    IN  IF the_mode = "short" THEN by_capital(d.signal)
        ELSE IF the_mode = "long" THEN by_vega(d.signal)
        ELSE IF d.signal < 0 THEN by_capital(-1)
        ELSE IF d.signal > 0 THEN by_vega(1)
        ELSE 0

Gated(next_target_contracts, strategy_gate_reason, short_pause, long_pause, gate_events) ==
    [next_target_contracts |-> next_target_contracts,
     strategy_gate_reason |-> strategy_gate_reason,
     adaptive_short_pause_remaining |-> short_pause,
     adaptive_long_pause_remaining |-> long_pause,
     events |-> gate_events]

\* The short gate without its risk flatten.
GateShort_filters_only(d, o, next_target, contracts_now, short_pause, long_pause) ==
    IF ~d.filters.pricing_filter_passed \/ ~d.filters.path_filter_passed
    THEN Gated(0, "SHORT_GATE_FORCE_FLAT", short_pause, long_pause,
               IF next_target # 0 \/ contracts_now # 0 THEN <<"STRATEGY_GATE">> ELSE <<>>)
    ELSE Gated(next_target, "", short_pause, long_pause, <<>>)

\* if mode == "short": the filters and the risk flatten force the target to 0
GateShort(d, o, next_target, contracts_now, short_pause, long_pause) ==
    LET failed == ~d.filters.pricing_filter_passed \/ ~d.filters.path_filter_passed
        g1 == IF failed
              THEN Gated(0, "SHORT_GATE_FORCE_FLAT", short_pause, long_pause,
                         IF next_target # 0 \/ contracts_now # 0
                         THEN <<"STRATEGY_GATE">> ELSE <<>>)
              ELSE Gated(next_target, "", short_pause, long_pause, <<>>)
    IN  IF o.flatten_for_risk
        THEN [g1 EXCEPT !.next_target_contracts = 0, !.strategy_gate_reason = "SHORT_RISK_FLATTEN"]
        ELSE g1

\* the pause of the overlays applies when it does not require an invalid stance, or
\* when the stance is not the one of the paused side
PauseApplied(d, o) ==
    /\ o.adaptive_pause_side # ""
    /\ IF o.adaptive_pause_requires_invalid
       THEN IF o.adaptive_pause_side = "short" THEN d.stance # "SHORT_VOL"
            ELSE d.stance # "LONG_VOL"
       ELSE TRUE

\* The gate of a paused stance without the branch of the forced flatten.
GatePaused_only(g, d, o) ==
    IF d.stance = "PAUSED"
    THEN [g EXCEPT !.next_target_contracts = 0, !.strategy_gate_reason = "ADAPTIVE_PAUSED"]
    ELSE g

\* "if decision.stance == 'PAUSED' ... elif flatten_for_risk ..."
GatePausedOrFlatten(g, d, o) ==
    IF d.stance = "PAUSED"
    THEN [g EXCEPT !.next_target_contracts = 0, !.strategy_gate_reason = "ADAPTIVE_PAUSED"]
    ELSE IF o.flatten_for_risk
    THEN [g EXCEPT !.next_target_contracts = 0, !.strategy_gate_reason = "ADAPTIVE_RISK_FLATTEN"]
    ELSE g

\* elif mode == "long"
GateLong(a, d, o, next_target, short_pause, long_pause) ==
    LET pause_len == Max(a.adaptive_pause_bars, a.cooldown_bars)
        g0 == Gated(IF next_target < 0 THEN 0 ELSE next_target, "", short_pause, long_pause, <<>>)
        g1 == IF o.adaptive_pause_side = "long" /\ PauseApplied(d, o)
              THEN [g0 EXCEPT !.adaptive_long_pause_remaining = Max(@, pause_len),
                              !.strategy_gate_reason = "ADAPTIVE_LONG_PAUSED_RISK",
                              !.next_target_contracts = 0]
              ELSE g0
        g2 == GatePausedOrFlatten(g1, d, o)
    IN  IF g2.next_target_contracts > 0 /\ g2.adaptive_long_pause_remaining > 0
        THEN [g2 EXCEPT !.next_target_contracts = 0, !.strategy_gate_reason = "ADAPTIVE_LONG_PAUSED"]
        ELSE g2

\* else (adaptive), up to the pause gates
GateAdaptivePauses(a, d, o, next_target, short_pause, long_pause) ==
    LET pause_len == Max(a.adaptive_pause_bars, a.cooldown_bars)
        g0 == Gated(next_target, "", short_pause, long_pause, <<>>)
        g1 == IF PauseApplied(d, o)
              THEN IF o.adaptive_pause_side = "short"
                   THEN [g0 EXCEPT !.adaptive_short_pause_remaining = Max(@, pause_len),
                                   !.strategy_gate_reason = "ADAPTIVE_SHORT_PAUSED_RISK",
                                   !.next_target_contracts = 0]
                   ELSE IF o.adaptive_pause_side = "long"
                   THEN [g0 EXCEPT !.adaptive_long_pause_remaining = Max(@, pause_len),
                                   !.strategy_gate_reason = "ADAPTIVE_LONG_PAUSED_RISK",
                                   !.next_target_contracts = 0]
                   ELSE [g0 EXCEPT !.next_target_contracts = 0]
              ELSE g0
        g2 == GatePausedOrFlatten(g1, d, o)
    IN  IF g2.next_target_contracts < 0 /\ g2.adaptive_short_pause_remaining > 0
        THEN [g2 EXCEPT !.next_target_contracts = 0, !.strategy_gate_reason = "ADAPTIVE_SHORT_PAUSED"]
        ELSE IF g2.next_target_contracts > 0 /\ g2.adaptive_long_pause_remaining > 0
        THEN [g2 EXCEPT !.next_target_contracts = 0, !.strategy_gate_reason = "ADAPTIVE_LONG_PAUSED"]
        ELSE g2

\* the last gate of the adaptive mode: no direct flip of the sign of the position
GateAdaptive(a, d, o, next_target, contracts_now, short_pause, long_pause) ==
    LET g == GateAdaptivePauses(a, d, o, next_target, short_pause, long_pause)
    IN  IF \/ (contracts_now < 0 /\ 0 < g.next_target_contracts)
           \/ (contracts_now > 0 /\ 0 > g.next_target_contracts)
        THEN [g EXCEPT !.next_target_contracts = 0,
                       !.strategy_gate_reason = "ADAPTIVE_SWITCH_THROUGH_FLAT"]
        ELSE g

Gate(the_mode, a, d, o, next_target, contracts_now, short_pause, long_pause) ==
    IF the_mode = "short" THEN GateShort(d, o, next_target, contracts_now, short_pause, long_pause)
    ELSE IF the_mode = "long" THEN GateLong(a, d, o, next_target, short_pause, long_pause)
    ELSE GateAdaptive(a, d, o, next_target, contracts_now, short_pause, long_pause)

(***************************************************************************)
(* run_single_mode: one iteration of the loop over market_data.  s is the  *)
(* state carried from the previous bar, m the market row, x the metrics    *)
(* the histories give the engine on this bar.  The profit-and-loss         *)
(* breakdown, the returns and the LONG_DIAGNOSTIC event are reports that   *)
(* no decision reads; they are left out.                                   *)
(***************************************************************************)
\* A loop that drops the queued order when this bar's signal is flat.
RequestedTarget_same_bar(pending, bar_decision) ==
    IF bar_decision.signal = 0 THEN 0 ELSE pending

\* requested_target_contracts = pending_target_contracts: the order queued by the
\* previous bar; this bar's decision does not exist yet when it is read
RequestedTarget(pending, bar_decision) == pending

StanceEvent(prev_stance, d) == IF d.stance # prev_stance THEN <<"STANCE">> ELSE <<>>

\* The countdown of a loop pause without its test.
Decremented_unguarded(pause_remaining) == pause_remaining - 1

\* "if adaptive_short_pause_remaining > 0: adaptive_short_pause_remaining -= 1"
Decremented(pause_remaining) == IF pause_remaining > 0 THEN pause_remaining - 1 ELSE pause_remaining

\* mark to market, drawdown.peek, the kill switch and the overlays: everything the
\* bar knows before it trades
BarRisk(the_mode, s, m) ==
    LET equity_before_trade == s.cash
                               + s.option_contracts * CONTRACT_MULTIPLIER * m.option_mid
                               + s.hedge_shares * m.spot
        drawdown_before_trade == peek(s.peak_equity, equity_before_trade)
        exposures_before == compute_exposures(s.option_contracts, s.hedge_shares,
                                              m.spot, m.option_mid, m.delta, m.gamma, m.vega)
        gamma_risk == gamma_risk_metric(exposures_before.gamma_exposure, m.spot)
        kill_action == evaluate(gamma_risk, drawdown_before_trade)
    IN  [equity_before_trade |-> equity_before_trade,
         drawdown_before_trade |-> drawdown_before_trade,
         gamma_risk |-> gamma_risk,
         gamma_zone |-> kill_action.zone,
         overlay |-> RiskOverlay(the_mode, kill_action, drawdown_before_trade,
                                 s.option_contracts)]

\* the hedge follows the option trade; equity and drawdown.update close the trade
BarHedge(s, m, requested, lim, option_trade, hedge_trade) ==
    [requested_target_contracts |-> requested,
     lim |-> lim,
     option_contracts |-> option_trade.new_contracts,
     hedge_shares |-> hedge_trade.new_shares,
     cash |-> hedge_trade.cash,
     equity |-> hedge_trade.cash
                + option_trade.new_contracts * CONTRACT_MULTIPLIER * m.option_mid
                + hedge_trade.new_shares * m.spot]

BarOptionTrade(s, m, requested, lim, option_trade) ==
    BarHedge(s, m, requested, lim, option_trade,
             rebalance_delta_hedge(s.hedge_shares,
                                   HedgeSharesFor(option_trade.new_contracts, m.delta),
                                   m.spot, option_trade.cash))

BarLimited(s, m, requested, lim) ==
    BarOptionTrade(s, m, requested, lim,
                   execute_option_trade(s.option_contracts, lim.target_contracts,
                                        m.option_mid, s.cash))

\* the flatten override, the limiter and the execution of the requested target
BarTrade(s, m, k, requested) ==
    BarLimited(s, m, requested,
               LimitTarget(IF k.overlay.flatten_for_risk THEN 0 ELSE requested,
                           k.overlay.flatten_for_risk, s.option_contracts, m,
                           k.equity_before_trade))

\* the state after the bar, its step row and its events
BarResult(s, k, r, t, g, peak) ==
    [cash |-> t.cash,
     option_contracts |-> t.option_contracts,
     hedge_shares |-> t.hedge_shares,
     peak_equity |-> peak,
     pending_target_contracts |-> g.next_target_contracts,
     adaptive_short_pause_remaining |-> g.adaptive_short_pause_remaining,
     adaptive_long_pause_remaining |-> g.adaptive_long_pause_remaining,
     engine |-> r.engine,
     decision |-> r.decision,
     events |-> (IF k.overlay.risk_reasons # <<>> THEN <<"RISK">> ELSE <<>>)
                \o t.lim.events \o StanceEvent(s.prev_stance, r.decision) \o g.events,
     step_row |->
        [stance |-> r.decision.stance, signal |-> r.decision.signal,
         strategy_gate_reason |-> g.strategy_gate_reason,
         requested_option_contracts |-> t.requested_target_contracts,
         executed_target_contracts |-> t.lim.target_contracts,
         option_contracts |-> t.option_contracts,
         queued_option_contracts |-> g.next_target_contracts,
         hedge_shares |-> t.hedge_shares,
         equity |-> t.equity,
         drawdown |-> peek(peak, t.equity),
         risk_events |-> k.overlay.risk_reasons,
         gamma_risk |-> k.gamma_risk,
         gamma_zone |-> k.gamma_zone,
         effective_size_factor |-> k.overlay.effective_size_factor,
         risk_block_reason |-> t.lim.block_reason,
         opening_option_contracts |-> s.option_contracts,
         equity_before_trade |-> k.equity_before_trade,
         drawdown_before_trade |-> k.drawdown_before_trade,
         flatten_for_risk |-> k.overlay.flatten_for_risk,
         limiter_consulted |-> t.lim.consulted]]

\* the signal of the bar sizes and gates the target queued for the next bar
BarQueue(the_mode, a, s, m, k, r, t) ==
    BarResult(s, k, r, t,
              Gate(the_mode, a, r.decision, k.overlay,
                   NextTarget(the_mode, r.decision, m, t.equity,
                              k.overlay.effective_size_factor),
                   t.option_contracts,
                   Decremented(s.adaptive_short_pause_remaining),
                   Decremented(s.adaptive_long_pause_remaining)),
              IF t.equity > s.peak_equity THEN t.equity ELSE s.peak_equity)

BarDecided(the_mode, a, s, m, k, r) ==
    BarQueue(the_mode, a, s, m, k, r,
             BarTrade(s, m, k, RequestedTarget(s.pending_target_contracts, r.decision)))

RunBar(the_mode, a, c, s, m, x) ==
    BarDecided(the_mode, a, s, m, BarRisk(the_mode, s, m),
               decide(the_mode, c, s.engine, s.hist_len + 1, x))

(***************************************************************************)
(* run(): parse, validate, resolve the signal configuration, then start    *)
(* the modes.  The arguments are the defaults with some options given.     *)
(***************************************************************************)
ArgOptions ==
    [rv_short_window : {30, 25}, rv_medium_window : {240, 20},
     adaptive_enter_persist_bars : {3, 1, 0},
     adaptive_short_edge_exit : {100, 150},
     adaptive_vov_low : {30, 50}, adaptive_vov_high : {60, 80},
     adaptive_vov_exit : {40, 70}]

WithOptions(o) == [f \in SignalFields |-> IF f \in DOMAIN o THEN o[f] ELSE DEFAULT_SIGNAL_CONFIG[f]]

InitRun ==
    /\ args \in {WithOptions(o) : o \in ArgOptions}
    /\ granularity \in {"intraday", "daily"}
    /\ phase = "parsed"
    /\ mode = None /\ signal_config = None /\ engine = None
    /\ decision = None /\ hist_len = 0 /\ bar_history = <<>>
    /\ IdlePure /\ IdleLoop

\* one of the checks raises ValueError: no bar is processed
RejectArgs ==
    /\ phase = "parsed"
    /\ ~SignalBoundsOk(args)
    /\ phase' = "rejected"
    /\ UNCHANGED <<args, granularity, pureVars, engineVars, loopVars>>

\* the checks pass; signal_config = resolve_signal_config(args, market_data) is
\* what every run_single_mode call receives
ResolveSignalConfig ==
    /\ phase = "parsed"
    /\ SignalBoundsOk(args)
    /\ signal_config' = resolve_signal_config(args, granularity)
    /\ phase' = "running"
    /\ UNCHANGED <<args, granularity, pureVars, mode, engine, decision, hist_len, bar_history, loopVars>>

SpecRun == InitRun /\ [][RejectArgs \/ ResolveSignalConfig]_vars


(***************************************************************************)
(* One RegimeSignalEngine fed bar after bar, the way run_single_mode calls *)
(* it: decide once per bar on a history one bar longer each time.  The     *)
(* configurations are the defaults with short windows and short            *)
(* persistence, pause and cooldown lengths, all of which run() accepts.    *)
(***************************************************************************)
MaxEngineBars == 6

EngineOptions ==
    [rv_short_window : {1}, rv_medium_window : {2}, trend_window : {2},
     adaptive_enter_persist_bars : {1, 2}, adaptive_exit_persist_bars : {1, 2},
     adaptive_pause_bars : {0, 1, 2}, cooldown_bars : {0, 2}]

EngineConfigs == {WithOptions(o) : o \in EngineOptions}

Metrics(edge, trend_strength, jump_abs_return, rv_change) ==
    [edge |-> edge, trend_strength |-> trend_strength,
     jump_abs_return |-> jump_abs_return, rv_change |-> rv_change]

\* rich and calm; richer still; rich with a jump; cheap and unstable; cheap and
\* trending; neither
EngineMetrics ==
    {Metrics(250, 20, 0, 10), Metrics(350, 20, 0, 10), Metrics(250, 20, 100, 10),
     Metrics(-100, 20, 0, 100), Metrics(-100, 100, 0, 50), Metrics(150, 50, 0, 50)}

StrategyModes == {"short", "long", "adaptive"}

\* the longest persistence or pause of the configuration, plus the bar that follows
HistoryKeep ==
    1 + Max(signal_config.adaptive_enter_persist_bars,
            Max(signal_config.adaptive_exit_persist_bars, signal_config.adaptive_pause_bars))

\* one bar an engine was fed: the metrics of the bar, and adaptive_state as the
\* call of decide found it
FedBar(x, adaptive_state) == [x |-> x, adaptive_state |-> adaptive_state]

\* the last HistoryKeep bars of a history
Recent(history) ==
    IF Len(history) <= HistoryKeep THEN history
    ELSE SubSeq(history, Len(history) - HistoryKeep + 1, Len(history))

InitEngine ==
    /\ mode \in StrategyModes
    /\ signal_config \in EngineConfigs
    /\ engine = EngineInit
    /\ decision = None
    /\ hist_len = 0
    /\ bar_history = <<>>
    /\ IdlePure /\ IdleRun /\ IdleLoop

\* the engine of a run on daily data: run() validates the arguments, then
\* resolve_signal_config lays the options given on the command line over the daily
\* preset, and the result is the SignalConfig of the engine
DailyOptions ==
    [rv_short_window : {1}, rv_medium_window : {2}, trend_window : {2},
     adaptive_enter_persist_bars : {1, 2},
     adaptive_vov_high : {80},
     adaptive_long_trend_max : {80, 130},
     adaptive_confidence_buffer : {10, 350, 400}]

DailyArgs == {WithOptions(o) : o \in DailyOptions}

\* rich and choppy, twice; cheap and choppy; rich; rich and trending
DailyMetrics ==
    {Metrics(290, 20, 0, 90), Metrics(300, 20, 0, 90), Metrics(100, 20, 0, 120),
     Metrics(500, 20, 0, 90), Metrics(500, 600, 0, 90)}

InitDaily ==
    /\ args \in DailyArgs
    /\ SignalBoundsOk(args)
    /\ granularity = "daily"
    /\ phase = "running"
    /\ mode \in StrategyModes
    /\ signal_config = resolve_signal_config(args, granularity)
    /\ engine = EngineInit
    /\ decision = None
    /\ hist_len = 0
    /\ bar_history = <<>>
    /\ IdlePure /\ IdleLoop

\* the metrics a bar can have
FedMetrics == IF granularity = "daily" THEN DailyMetrics ELSE EngineMetrics

Decide ==
    /\ hist_len < MaxEngineBars
    /\ \E x \in FedMetrics :
         LET r == decide(mode, signal_config, engine, hist_len + 1, x)
         IN  /\ engine' = r.engine
             /\ decision' = r.decision
             /\ bar_history' = Recent(Append(bar_history, FedBar(x, engine.adaptive_state)))
    /\ hist_len' = hist_len + 1
    /\ call' = [fn |-> "none"]
    /\ UNCHANGED <<mode, signal_config, ret, runVars, loopVars>>

SpecEngine == InitEngine /\ [][Decide]_vars

SpecDaily == InitDaily /\ [][Decide]_vars

\* The engine with a caller that also injects a pause between two bars; call
\* holds the arguments of a force_pause no decide has followed yet.
ForceBars == {-1, 0, 1, 3}

ForceReasons == {"GLOBAL_DRAWDOWN_KILL"}

PauseOptions ==
    [rv_short_window : {1}, rv_medium_window : {2, 3}, trend_window : {2},
     adaptive_enter_persist_bars : {1}, adaptive_exit_persist_bars : {1},
     adaptive_pause_bars : {1, 2}, cooldown_bars : {2}]

PauseConfigs == {WithOptions(o) : o \in PauseOptions}

InitPause ==
    /\ mode \in StrategyModes
    /\ signal_config \in PauseConfigs
    /\ engine = EngineInit
    /\ decision = None
    /\ hist_len = 0
    /\ bar_history = <<>>
    /\ IdlePure /\ IdleRun /\ IdleLoop

ForcePause ==
    /\ hist_len < MaxEngineBars
    /\ call.fn # "force_pause"
    /\ \E bars \in ForceBars, reason \in ForceReasons :
         /\ engine' = force_pause(mode, engine, bars, reason)
         /\ call' = [fn |-> "force_pause", bars |-> bars, reason |-> reason]
    /\ UNCHANGED <<mode, signal_config, decision, hist_len, bar_history, ret, runVars, loopVars>>

SpecPause == InitPause /\ [][Decide \/ ForcePause]_vars


(***************************************************************************)
(* run_single_mode on intraday data: every bar draws a market row and the  *)
(* metrics its histories give.  Spot 1000 dollars, option prices that are  *)
(* multiples of 20 cents and a delta of 0.1 keep fees and slippage whole   *)
(* numbers of cents.                                                       *)
(***************************************************************************)
MaxBars == 5

LoopOptions ==
    [rv_short_window : {1}, rv_medium_window : {1, 2}, trend_window : {1},
     adaptive_enter_persist_bars : {1, 2}, adaptive_exit_persist_bars : {1},
     adaptive_pause_bars : {0, 1}, cooldown_bars : {1}]

LoopArgs == {WithOptions(o) : o \in LoopOptions}

Calm == Market(100000, 200, 100, 10, 20)
Drifting == Market(101000, 200, 100, 12, 20)
Stressed == Market(100000, 500, 100, 25, 20)
Crash == Market(100000, 2400, 100, 25, 20)
Cheap == Market(100000, 20, 100, 10, 20)

BarInput(m, x) == [m |-> m, x |-> x]

LoopBars ==
    {BarInput(Calm, Metrics(250, 20, 0, 10)),
     BarInput(Calm, Metrics(-100, 20, 0, 100)),
     BarInput(Calm, Metrics(150, 50, 0, 50)),
     BarInput(Drifting, Metrics(250, 20, 0, 10)),
     BarInput(Stressed, Metrics(250, 20, 0, 10)),
     BarInput(Stressed, Metrics(-100, 20, 0, 100)),
     BarInput(Crash, Metrics(150, 50, 0, 50)),
     BarInput(Cheap, Metrics(-100, 100, 0, 50))}

InitLoop ==
    /\ args \in LoopArgs
    /\ granularity = "intraday"
    /\ phase = "running"
    /\ mode \in StrategyModes
    /\ signal_config = resolve_signal_config(args, granularity)
    /\ engine = EngineInit
    /\ decision = None
    /\ hist_len = 0
    /\ bar_history = <<>>
    /\ idx = 0
    /\ cash = INITIAL_CAPITAL
    /\ option_contracts = 0 /\ hedge_shares = 0
    /\ prev_spot = None /\ prev_option_mid = None
    /\ peak_equity = INITIAL_CAPITAL
    /\ pending_target_contracts = 0
    /\ adaptive_short_pause_remaining = 0 /\ adaptive_long_pause_remaining = 0
    /\ row = None /\ step_row = None /\ events = <<>>
    /\ IdlePure

\* what the loop carries from one bar to the next
LoopState ==
    [cash |-> cash, option_contracts |-> option_contracts, hedge_shares |-> hedge_shares,
     peak_equity |-> peak_equity, pending_target_contracts |-> pending_target_contracts,
     adaptive_short_pause_remaining |-> adaptive_short_pause_remaining,
     adaptive_long_pause_remaining |-> adaptive_long_pause_remaining,
     engine |-> engine, hist_len |-> hist_len,
     prev_stance |-> IF idx = 0 THEN "FLAT" ELSE decision.stance]

\* the assignments at the end of an iteration
BarStep(n, m) ==
    /\ cash' = n.cash
    /\ option_contracts' = n.option_contracts
    /\ hedge_shares' = n.hedge_shares
    /\ peak_equity' = n.peak_equity
    /\ pending_target_contracts' = n.pending_target_contracts
    /\ adaptive_short_pause_remaining' = n.adaptive_short_pause_remaining
    /\ adaptive_long_pause_remaining' = n.adaptive_long_pause_remaining
    /\ engine' = n.engine
    /\ decision' = n.decision
    /\ events' = n.events
    /\ step_row' = n.step_row
    /\ row' = m
    /\ prev_spot' = m.spot
    /\ prev_option_mid' = m.option_mid

Bar ==
    /\ phase = "running"
    /\ idx < MaxBars
    /\ \E b \in LoopBars :
         BarStep(RunBar(mode, args, signal_config, LoopState, b.m, b.x), b.m)
    /\ idx' = idx + 1
    /\ hist_len' = hist_len + 1
    /\ UNCHANGED <<pureVars, runVars, mode, signal_config, bar_history>>

SpecLoop == InitLoop /\ [][Bar]_vars

(***************************************************************************)
(* run_single_mode on rows whose close is not positive: load_prices and    *)
(* merge_market_data pass such rows on, and the loop takes the logarithm   *)
(* of spot / prev_spot after testing prev_spot only.                       *)
(***************************************************************************)
Worthless == Market(0, 200, 100, 10, 20)
Negative == Market(-500, 200, 100, 10, 20)

NonPositiveBars ==
    {BarInput(Worthless, Metrics(150, 50, 0, 50)),
     BarInput(Negative, Metrics(150, 50, 0, 50))}

\* "if prev_spot is not None and prev_spot > 0:
\*      return_history.append(math.log(spot / prev_spot))":
\* math.log raises ValueError unless its argument is positive
LogReturnRaises(first_bar, last_spot, spot) ==
    /\ ~first_bar
    /\ last_spot > 0
    /\ spot <= 0

\* an iteration on a row with a close <= 0: the ValueError leaves run_single_mode,
\* or the bar runs to its end when the logarithm is skipped
BarNonPositiveClose ==
    /\ phase = "running"
    /\ idx < MaxBars
    /\ \E b \in NonPositiveBars :
         IF LogReturnRaises(idx = 0, prev_spot, b.m.spot)
         THEN /\ phase' = "raised"
              /\ UNCHANGED <<args, granularity, pureVars, engineVars, loopVars>>
         ELSE /\ BarStep(RunBar(mode, args, signal_config, LoopState, b.m, b.x), b.m)
              /\ idx' = idx + 1
              /\ hist_len' = hist_len + 1
              /\ UNCHANGED <<pureVars, runVars, mode, signal_config, bar_history>>

SpecAnyClose == InitLoop /\ [][Bar \/ BarNonPositiveClose]_vars

\* run_single_mode with pauses of the overlays that last two or three bars:
\* pause_len = max(args.adaptive_pause_bars, args.cooldown_bars)
LongPauseOptions ==
    [rv_short_window : {1}, rv_medium_window : {1}, trend_window : {1},
     adaptive_enter_persist_bars : {1}, adaptive_exit_persist_bars : {1},
     adaptive_pause_bars : {0, 3}, cooldown_bars : {2}]

LongPauseArgs == {WithOptions(o) : o \in LongPauseOptions}

InitLongPauses ==
    /\ args \in LongPauseArgs
    /\ granularity = "intraday"
    /\ phase = "running"
    /\ mode \in StrategyModes
    /\ signal_config = resolve_signal_config(args, granularity)
    /\ engine = EngineInit
    /\ decision = None
    /\ hist_len = 0
    /\ bar_history = <<>>
    /\ idx = 0
    /\ cash = INITIAL_CAPITAL
    /\ option_contracts = 0 /\ hedge_shares = 0
    /\ prev_spot = None /\ prev_option_mid = None
    /\ peak_equity = INITIAL_CAPITAL
    /\ pending_target_contracts = 0
    /\ adaptive_short_pause_remaining = 0 /\ adaptive_long_pause_remaining = 0
    /\ row = None /\ step_row = None /\ events = <<>>
    /\ IdlePure

SpecLongPauses == InitLongPauses /\ [][Bar]_vars

\* The engine under the calls of a direct caller (decide and force_pause), or
\* driven bar by bar by run_single_mode, which never calls force_pause.
DirectCall == phase = None /\ (Decide \/ ForcePause)

SpecCalls == (InitPause \/ InitLoop) /\ [][DirectCall \/ Bar]_vars


\* Two engines of one configuration, one per mode, fed the same bars in step;
\* engine and decision hold one value per mode.  The bars are those on which the
\* adaptive short-enter predicate does not hold.
TwinModes == {"long", "adaptive"}

InitTwin ==
    /\ mode = TwinModes
    /\ signal_config \in EngineConfigs
    /\ engine = [the_mode \in TwinModes |-> EngineInit]
    /\ decision = None
    /\ hist_len = 0
    /\ bar_history = <<>>
    /\ IdlePure /\ IdleRun /\ IdleLoop

DecideTwin ==
    /\ hist_len < MaxEngineBars
    /\ \E x \in EngineMetrics :
         /\ ~_adaptive_short_enter_ok(signal_config, x)
         /\ engine' = [the_mode \in TwinModes |->
                          decide(the_mode, signal_config, engine[the_mode], hist_len + 1, x).engine]
         /\ decision' = [the_mode \in TwinModes |->
                            decide(the_mode, signal_config, engine[the_mode], hist_len + 1, x).decision]
         /\ bar_history' = Recent(Append(bar_history, FedBar(x, engine["long"].adaptive_state)))
    /\ hist_len' = hist_len + 1
    /\ UNCHANGED <<mode, signal_config, pureVars, runVars, loopVars>>

SpecTwin == InitTwin /\ [][DecideTwin]_vars


(***************************************************************************)
(* run(): "for mode in modes: run_single_mode(mode=mode, market_data=...,  *)
(* args=args, signal_config=signal_config, ...)".  call holds what every   *)
(* call receives (the rows of market_data with the metrics their histories *)
(* give, and the list of modes), ret the results of the modes that have    *)
(* finished.                                                               *)
(***************************************************************************)
MaxDataBars == 3

DataBars ==
    {BarInput(Calm, Metrics(250, 20, 0, 10)),
     BarInput(Calm, Metrics(-100, 20, 0, 100)),
     BarInput(Stressed, Metrics(250, 20, 0, 10)),
     BarInput(Stressed, Metrics(-100, 20, 0, 100)),
     BarInput(Crash, Metrics(150, 50, 0, 50))}

\* modes = ["short", "long"] if args.strategy_mode == "both" else [args.strategy_mode]
ModesOf(strategy_mode) ==
    IF strategy_mode = "both" THEN <<"short", "long">> ELSE <<strategy_mode>>

\* locals that outlive the call: what the previous mode left, the histories apart
LocalsOfPreviousMode == [LoopState EXCEPT !.hist_len = 0]

\* the locals run_single_mode creates before its loop
FreshLocals ==
    [cash |-> INITIAL_CAPITAL, option_contracts |-> 0, hedge_shares |-> 0,
     peak_equity |-> INITIAL_CAPITAL, pending_target_contracts |-> 0,
     adaptive_short_pause_remaining |-> 0, adaptive_long_pause_remaining |-> 0,
     engine |-> EngineInit, hist_len |-> 0, prev_stance |-> "FLAT"]

InitModes ==
    /\ args \in LoopArgs
    /\ granularity = "intraday"
    /\ phase = "running"
    /\ \E strategy_mode \in StrategyModes \cup {"both"} :
         /\ call \in [fn : {"run_single_mode"},
                      market_data : [1 .. MaxDataBars -> DataBars],
                      modes : {ModesOf(strategy_mode)}]
         /\ mode = ModesOf(strategy_mode)[1]
    /\ ret = [done |-> FALSE, mode_results |-> <<>>]
    /\ signal_config = resolve_signal_config(args, granularity)
    /\ engine = EngineInit
    /\ decision = None
    /\ hist_len = 0
    /\ bar_history = <<>>
    /\ idx = 0
    /\ cash = INITIAL_CAPITAL
    /\ option_contracts = 0 /\ hedge_shares = 0
    /\ prev_spot = None /\ prev_option_mid = None
    /\ peak_equity = INITIAL_CAPITAL
    /\ pending_target_contracts = 0
    /\ adaptive_short_pause_remaining = 0 /\ adaptive_long_pause_remaining = 0
    /\ row = None /\ step_row = None /\ events = <<>>

\* "for idx, row in enumerate(market_data, start=1)": one iteration
DataBar ==
    /\ phase = "running"
    /\ idx < Len(call.market_data)
    /\ LET b == call.market_data[idx + 1]
       IN  BarStep(RunBar(mode, args, signal_config, LoopState, b.m, b.x), b.m)
    /\ idx' = idx + 1
    /\ hist_len' = hist_len + 1
    /\ UNCHANGED <<pureVars, runVars, mode, signal_config, bar_history>>

\* the loop of a mode is over: its result joins mode_results and run_single_mode
\* is called for the next mode
NextMode ==
    /\ phase = "running"
    /\ idx = Len(call.market_data)
    /\ Len(ret.mode_results) + 1 < Len(call.modes)
    /\ ret' = [ret EXCEPT !.mode_results =
                  Append(@, [mode |-> mode, ending_equity |-> step_row.equity])]
    /\ mode' = call.modes[Len(ret.mode_results) + 2]
    /\ cash' = FreshLocals.cash
    /\ option_contracts' = FreshLocals.option_contracts
    /\ hedge_shares' = FreshLocals.hedge_shares
    /\ peak_equity' = FreshLocals.peak_equity
    /\ pending_target_contracts' = FreshLocals.pending_target_contracts
    /\ adaptive_short_pause_remaining' = FreshLocals.adaptive_short_pause_remaining
    /\ adaptive_long_pause_remaining' = FreshLocals.adaptive_long_pause_remaining
    /\ engine' = FreshLocals.engine
    /\ hist_len' = FreshLocals.hist_len
    /\ idx' = 0
    /\ decision' = None
    /\ prev_spot' = None /\ prev_option_mid' = None
    /\ row' = None /\ step_row' = None /\ events' = <<>>
    /\ UNCHANGED <<call, runVars, signal_config, bar_history>>

SpecModes == InitModes /\ [][DataBar \/ NextMode]_vars


\* An adaptive engine whose edge thresholds let one bar be rich enough for the
\* short side and cheap enough for the long side (those of the daily preset), so
\* that rv_change alone tells the two enter predicates apart.  SignalConfig accepts
\* any pair of adaptive_vov_low and adaptive_vov_high.
VovOptions ==
    [rv_short_window : {1}, rv_medium_window : {2}, trend_window : {2},
     adaptive_enter_persist_bars : {1, 2}, adaptive_exit_persist_bars : {1},
     adaptive_pause_bars : {1},
     adaptive_vov_low : {100}, adaptive_vov_high : {80, 100, 120, 200},
     adaptive_confidence_buffer : {0, 10}]

VovConfigs ==
    {[f \in SignalFields |-> IF f \in DOMAIN o THEN o[f] ELSE daily_signal_preset[f]] :
        o \in VovOptions}

\* rv_change below both thresholds, between them, above both; and a bar that is
\* neither rich nor calm
VovMetrics ==
    {Metrics(290, 20, 0, 70), Metrics(290, 20, 0, 90), Metrics(290, 20, 0, 110),
     Metrics(290, 20, 0, 150), Metrics(290, 20, 0, 250), Metrics(100, 600, 0, 150)}

InitVov ==
    /\ mode = "adaptive"
    /\ signal_config \in VovConfigs
    /\ engine = EngineInit
    /\ decision = None
    /\ hist_len = 0
    /\ bar_history = <<>>
    /\ IdlePure /\ IdleRun /\ IdleLoop

DecideVov ==
    /\ hist_len < MaxEngineBars
    /\ \E x \in VovMetrics :
         LET r == decide(mode, signal_config, engine, hist_len + 1, x)
         IN  /\ engine' = r.engine
             /\ decision' = r.decision
             /\ bar_history' = Recent(Append(bar_history, FedBar(x, engine.adaptive_state)))
    /\ hist_len' = hist_len + 1
    /\ UNCHANGED <<mode, signal_config, pureVars, runVars, loopVars>>

SpecVov == InitVov /\ [][DecideVov]_vars


(***************************************************************************)
(*                              THE CLAIMS                                 *)
(***************************************************************************)

\* C1: KillSwitch.evaluate sets flatten_positions exactly when gamma_risk > G2
\* and total_drawdown > kill_drawdown_threshold; in the green and yellow zones it
\* is never set, whatever the drawdown.
C1_FlattenIffRedAndDrawdown ==
    (call.fn = "evaluate" /\ ret.done) =>
        /\ ret.value.flatten_positions <=>
               (/\ call.gamma_risk > gamma_red_threshold
                /\ DrawdownGt(call.total_drawdown, kill_drawdown_threshold))
        /\ ret.value.zone \in {"green", "yellow"} => ~ret.value.flatten_positions

\* evaluate has returned for a yellow-zone gamma_risk with a drawdown over the threshold
C1_Witness ==
    /\ call.fn = "evaluate" /\ ret.done
    /\ ret.value.zone = "yellow"
    /\ DrawdownGt(call.total_drawdown, kill_drawdown_threshold)
    /\ ~ret.value.flatten_positions

\* C8: zone, size_factor and reasons of KillSwitch.evaluate are a step function of
\* gamma_risk with lower-inclusive boundaries: <= G1 green / 1.0 / no reason;
\* (G1, G2] yellow / yellow factor / [GAMMA_YELLOW_THROTTLE]; > G2 red / red factor /
\* GAMMA_RED_THROTTLE first, then GAMMA_RED_DRAWDOWN_KILL only when flattening.
C8_ZoneStepFunction ==
    (call.fn = "evaluate" /\ ret.done) =>
        LET g == call.gamma_risk
            a == ret.value
        IN  /\ g <= gamma_green_threshold =>
                   a.zone = "green" /\ a.size_factor = SfDen /\ a.reasons = <<>>
            /\ (gamma_green_threshold < g /\ g <= gamma_red_threshold) =>
                   /\ a.zone = "yellow" /\ a.size_factor = gamma_yellow_size_factor
                   /\ a.reasons = <<"GAMMA_YELLOW_THROTTLE">>
            /\ g > gamma_red_threshold =>
                   /\ a.zone = "red" /\ a.size_factor = gamma_red_size_factor
                   /\ a.reasons[1] = "GAMMA_RED_THROTTLE"
                   /\ a.reasons = IF a.flatten_positions
                                  THEN <<"GAMMA_RED_THROTTLE", "GAMMA_RED_DRAWDOWN_KILL">>
                                  ELSE <<"GAMMA_RED_THROTTLE">>

\* evaluate has returned yellow for gamma_risk exactly G2 (the boundary belongs to the lower zone)
C8_Witness ==
    /\ call.fn = "evaluate" /\ ret.done
    /\ call.gamma_risk = gamma_red_threshold
    /\ ret.value.zone = "yellow"

\* The five checks of trade_allowed, each on its own
EquityFails(c) == c.projected_equity <= 0
CapitalAtRiskFails(c) ==
    Abs(c.projected_option_contracts * c.option_price * CONTRACT_MULTIPLIER) * PctDen
        > max_capital_at_risk * c.projected_equity
LeverageFails(c) == c.projected_notional > max_leverage * c.projected_equity
GammaFails(c) == c.projected_gamma_abs > max_abs_gamma
VegaFails(c) == c.projected_vega_abs > max_abs_vega

\* C9: trade_allowed reports the first failing check in the order equity <= 0,
\* capital at risk, leverage, |gamma|, |vega|, and allows with an empty reason only
\* when no check fails.
C9_FirstFailingReason ==
    (call.fn = "trade_allowed" /\ ret.done) =>
        LET r == ret.value
        IN  /\ r.reason = "Equity exhausted" <=> EquityFails(call)
            /\ r.reason = "Blocked: capital-at-risk limit breached" <=>
                   ~EquityFails(call) /\ CapitalAtRiskFails(call)
            /\ r.reason = "Blocked: leverage limit breached" <=>
                   ~EquityFails(call) /\ ~CapitalAtRiskFails(call) /\ LeverageFails(call)
            /\ r.reason = "Blocked: gamma limit breached" <=>
                   /\ ~EquityFails(call) /\ ~CapitalAtRiskFails(call)
                   /\ ~LeverageFails(call) /\ GammaFails(call)
            /\ r.reason = "Blocked: vega limit breached" <=>
                   /\ ~EquityFails(call) /\ ~CapitalAtRiskFails(call)
                   /\ ~LeverageFails(call) /\ ~GammaFails(call) /\ VegaFails(call)
            /\ r.allowed <=> r.reason = ""
            /\ r.allowed <=>
                   ~(\/ EquityFails(call) \/ CapitalAtRiskFails(call) \/ LeverageFails(call)
                     \/ GammaFails(call) \/ VegaFails(call))

\* trade_allowed has returned for a trade that breaches capital at risk, leverage,
\* gamma and vega at once
C9_Witness ==
    /\ call.fn = "trade_allowed" /\ ret.done
    /\ ~EquityFails(call) /\ CapitalAtRiskFails(call) /\ LeverageFails(call)
    /\ GammaFails(call) /\ VegaFails(call)
    /\ ret.value.reason = "Blocked: capital-at-risk limit breached"

\* C4: the clamp result is 0 or has the sign of desired_contracts, is no larger in
\* magnitude, is 0 when 0 contracts itself fails the limiter, and passes the limiter
\* whenever 0 contracts passes it.
C4_ClampContract ==
    (call.fn = "clamp_target_to_risk_limits" /\ ret.done) =>
        LET d == call.desired_contracts
            r == ret.value
            Allowed(c) == evaluate_projected_trade(c, call.m, call.projected_equity).allowed
        IN  /\ r = 0 \/ Sign(r) = Sign(d)
            /\ Abs(r) <= Abs(d)
            /\ ~Allowed(0) => r = 0
            /\ Allowed(0) => Allowed(r)

\* the clamp has cut a rejected short position down to a smaller non-zero one
C4_Witness ==
    /\ call.fn = "clamp_target_to_risk_limits" /\ ret.done
    /\ call.desired_contracts < 0
    /\ ~evaluate_projected_trade(call.desired_contracts, call.m, call.projected_equity).allowed
    /\ ret.value < 0 /\ ret.value > call.desired_contracts

\* The inputs on which a sizer returns before computing a budget
SizerZeroInput ==
    \/ call.signal = 0
    \/ call.capital_base <= 0
    \/ call.fn = "target_option_contracts" /\ call.option_price <= 0
    \/ call.fn = "target_contracts_by_vega_budget" /\ call.option_vega <= 0

\* The budget is smaller than one contract's notional (resp. vega)
SizerBudgetBelowOneContract ==
    IF call.fn = "target_option_contracts"
    THEN call.capital_base * call.max_capital_at_risk * BoundedSize(call.size_factor)
             < PctDen * SfDen * call.option_price * CONTRACT_MULTIPLIER
    ELSE call.capital_base * Max(0, call.max_abs_vega_ratio) * BoundedSize(call.size_factor)
             < PctDen * VegaRatioDen * SfDen * call.option_vega

IsSizerCall == call.fn \in {"target_option_contracts", "target_contracts_by_vega_budget"}

\* C7 as stated: a sizer returns 0 when signal = 0 or capital_base, option_price or
\* option_vega is <= 0, and otherwise a result with the sign of the signal.
C7_AsStated ==
    (IsSizerCall /\ ret.done) =>
        IF SizerZeroInput THEN ret.value = 0 ELSE Sign(ret.value) = Sign(call.signal)

\* C7 amended: a sizer returns 0 when signal = 0, when capital_base, option_price or
\* option_vega is <= 0, and when the budget is smaller than one contract; otherwise
\* the result has the sign of the signal.
C7_SizerSign ==
    (IsSizerCall /\ ret.done) =>
        IF SizerZeroInput \/ SizerBudgetBelowOneContract
        THEN ret.value = 0
        ELSE Sign(ret.value) = Sign(call.signal)

\* a sizer has returned 0 for a short signal with positive capital and price
\* (resp. vega) whose budget buys no contract
C7_Witness ==
    /\ IsSizerCall /\ ret.done
    /\ call.signal = -1 /\ ~SizerZeroInput /\ SizerBudgetBelowOneContract
    /\ ret.value = 0

\* C10: the signal configuration handed to run_single_mode always satisfies the
\* validated bounds (adaptive_vov_low < adaptive_vov_high, adaptive_vov_low <=
\* adaptive_vov_exit <= adaptive_vov_high, rv_short_window <= rv_medium_window, exit
\* thresholds on the correct side of the enter thresholds, persistence >= 1, ...).
C10_ResolvedConfigInBounds == phase = "running" => SignalBoundsOk(signal_config)

\* C6: on every evaluated bar where the cooldown/pause counter is > 0 before the
\* call of decide, the counter reported afterwards is smaller by exactly 1 and the
\* reported stance is FLAT or PAUSED, in the short, long and adaptive modes.
C6_CooldownCountdown ==
    [][(hist_len' = hist_len + 1 /\ engine.cooldown_remaining > 0)
       => /\ decision'.cooldown_remaining = engine.cooldown_remaining - 1
          /\ decision'.stance \in {"FLAT", "PAUSED"}]_vars

\* the metrics a bar of the loop can draw
LoopMetrics == {b.x : b \in LoopBars}

\* the executed target of the bar just run does not depend on the metrics, and so
\* not on the decision, of that bar
ExecutedWhateverTheSignal ==
    \A x \in LoopMetrics :
        LET other == RunBar(mode, args, signal_config, LoopState, row', x).step_row
        IN  /\ other.requested_option_contracts = step_row'.requested_option_contracts
            /\ other.executed_target_contracts = step_row'.executed_target_contracts

\* C2: one-bar delay.  The target requested on a bar is exactly the
\* pending_target_contracts stored at the end of the previous bar (0 on the first
\* bar); the executed target equals it except where the flatten override (0) or
\* the risk limiter (RISK_CLAMP, RISK_BLOCK) replaces it; the decision of the bar
\* never influences what the bar executes.
C2_OneBarDelay ==
    [][idx' = idx + 1 =>
        /\ step_row'.requested_option_contracts = pending_target_contracts
        /\ (idx = 0 => step_row'.requested_option_contracts = 0)
        /\ step_row'.flatten_for_risk => step_row'.executed_target_contracts = 0
        /\ (/\ ~step_row'.flatten_for_risk
            /\ ~Contains(events', "RISK_CLAMP")
            /\ ~Contains(events', "RISK_BLOCK"))
           => step_row'.executed_target_contracts = step_row'.requested_option_contracts
        /\ ExecutedWhateverTheSignal]_vars

\* a bar whose own signal is flat executes the nonzero order queued by the bar before
C2_Witness ==
    /\ idx > 1
    /\ step_row.signal = 0
    /\ step_row.requested_option_contracts # 0
    /\ step_row.executed_target_contracts = step_row.requested_option_contracts
    /\ step_row.opening_option_contracts = 0

\* C3: in the adaptive mode the end-of-bar option_contracts never changes sign from
\* one bar to the next: between a short and a long position there is a bar that
\* ends at exactly 0, whatever the flatten, clamp, block and de-risk paths do.
C3_SignThroughFlat ==
    [][(mode = "adaptive" /\ idx' = idx + 1) =>
        /\ ~(option_contracts < 0 /\ option_contracts' > 0)
        /\ ~(option_contracts > 0 /\ option_contracts' < 0)]_vars

\* a short position is closed to 0 on the bar that queues a long one
C3_Witness ==
    /\ mode = "adaptive"
    /\ idx > 0
    /\ step_row.opening_option_contracts < 0
    /\ option_contracts = 0
    /\ pending_target_contracts > 0

\* C5: on every bar where flatten_for_risk is true the executed option target is 0,
\* the limiter is not consulted, no RISK_BLOCK, RISK_CLAMP or RISK_ALLOW_DERISK
\* event is written, and option_contracts and hedge_shares both end the bar at 0,
\* also when trade_allowed would reject the trade.
C5_FlattenBypassesLimiter ==
    (idx > 0 /\ step_row.flatten_for_risk) =>
        /\ step_row.executed_target_contracts = 0
        /\ ~step_row.limiter_consulted
        /\ ~Contains(events, "RISK_BLOCK")
        /\ ~Contains(events, "RISK_CLAMP")
        /\ ~Contains(events, "RISK_ALLOW_DERISK")
        /\ option_contracts = 0
        /\ hedge_shares = 0

\* a position is flattened on a bar whose equity is exhausted, where trade_allowed
\* rejects every target
C5_Witness ==
    /\ idx > 0
    /\ step_row.flatten_for_risk
    /\ step_row.opening_option_contracts # 0
    /\ step_row.equity_before_trade <= 0
    /\ ~evaluate_projected_trade(0, row, step_row.equity_before_trade).allowed
    /\ option_contracts = 0 /\ hedge_shares = 0

\* a step of decide (one more bar of history)
DecideStep == hist_len' = hist_len + 1

\* the metrics of the bar just evaluated, and of the k-th bar before it
LastBar == bar_history[Len(bar_history)]
BarBefore(history, k) == history[Len(history) - k]

\* the predicate held on each of the last k bars of the history, all of them
\* evaluated past the warmup
HeldOnLast(P(_, _), history, n, k) ==
    /\ k <= Len(history)
    /\ n - k + 1 >= min_warmup_bars(signal_config)
    /\ \A j \in 0 .. k - 1 : P(signal_config, BarBefore(history, j).x)

\* the bar was evaluated by the block of the FLAT sub-state: decide found the
\* sub-state FLAT, or found it PAUSED and completed the pause
EvaluatedFlat ==
    /\ DecideStep
    /\ hist_len' >= min_warmup_bars(signal_config)
    /\ \/ engine.adaptive_state = "FLAT"
       \/ engine.adaptive_state = "PAUSED" /\ engine'.adaptive_state # "PAUSED"

\* C11: in adaptive mode the sub-state becomes SHORT_VOL (resp. LONG_VOL) only on a
\* bar at which the short-enter (resp. long-enter) predicate has held on each of
\* the last adaptive_enter_persist_bars consecutive evaluated bars, and a bar
\* evaluated in FLAT on which the predicate fails leaves that enter counter at 0.
C11_EnterPersistence ==
    [][(mode = "adaptive" /\ DecideStep)
       => /\ (engine.adaptive_state # "SHORT_VOL" /\ engine'.adaptive_state = "SHORT_VOL")
                => HeldOnLast(_adaptive_short_enter_ok, bar_history', hist_len',
                              signal_config.adaptive_enter_persist_bars)
          /\ (engine.adaptive_state # "LONG_VOL" /\ engine'.adaptive_state = "LONG_VOL")
                => HeldOnLast(_adaptive_long_enter_ok, bar_history', hist_len',
                              signal_config.adaptive_enter_persist_bars)
          /\ (EvaluatedFlat /\ ~_adaptive_short_enter_ok(signal_config, BarBefore(bar_history', 0).x))
                => engine'.adaptive_short_enter_count = 0
          /\ (EvaluatedFlat /\ ~_adaptive_long_enter_ok(signal_config, BarBefore(bar_history', 0).x))
                => engine'.adaptive_long_enter_count = 0]_vars

\* an entry after two bars: the bar before the entry held the predicate without
\* entering
C11_Witness ==
    /\ mode = "adaptive"
    /\ signal_config.adaptive_enter_persist_bars = 2
    /\ hist_len > 0
    /\ decision.reason = "SHORT: adaptive enter persisted"
    /\ Len(bar_history) >= 3
    /\ BarBefore(bar_history, 0).adaptive_state = "FLAT"
    /\ BarBefore(bar_history, 1).adaptive_state = "FLAT"
    /\ ~_adaptive_short_enter_ok(signal_config, BarBefore(bar_history, 2).x)

\* the predicate held on each of the last k bars of the history, and decide found
\* the sub-state in the given regime on each of them
HeldInRegime(P(_, _), regime, history, k) ==
    /\ k <= Len(history)
    /\ \A j \in 0 .. k - 1 :
         /\ BarBefore(history, j).adaptive_state = regime
         /\ P(signal_config, BarBefore(history, j).x)

\* C12: in adaptive mode the sub-state leaves SHORT_VOL (resp. LONG_VOL) only on a
\* bar at which the short-exit (resp. long-exit) predicate has held on each of the
\* last adaptive_exit_persist_bars consecutive bars spent in that state; the exit
\* counter is 0 after the entry and after any bar in the state on which the exit
\* predicate fails.
C12_ExitPersistence ==
    [][(mode = "adaptive" /\ DecideStep)
       => /\ (engine.adaptive_state = "SHORT_VOL" /\ engine'.adaptive_state # "SHORT_VOL")
                => HeldInRegime(_adaptive_short_exit_ok, "SHORT_VOL", bar_history',
                                signal_config.adaptive_exit_persist_bars)
          /\ (engine.adaptive_state = "LONG_VOL" /\ engine'.adaptive_state # "LONG_VOL")
                => HeldInRegime(_adaptive_long_exit_ok, "LONG_VOL", bar_history',
                                signal_config.adaptive_exit_persist_bars)
          /\ (engine.adaptive_state # "SHORT_VOL" /\ engine'.adaptive_state = "SHORT_VOL")
                => engine'.adaptive_short_exit_count = 0
          /\ (engine.adaptive_state # "LONG_VOL" /\ engine'.adaptive_state = "LONG_VOL")
                => engine'.adaptive_long_exit_count = 0
          /\ (/\ engine.adaptive_state = "SHORT_VOL"
              /\ ~_adaptive_short_exit_ok(signal_config, BarBefore(bar_history', 0).x))
                => engine'.adaptive_short_exit_count = 0 /\ engine'.adaptive_state = "SHORT_VOL"
          /\ (/\ engine.adaptive_state = "LONG_VOL"
              /\ ~_adaptive_long_exit_ok(signal_config, BarBefore(bar_history', 0).x))
                => engine'.adaptive_long_exit_count = 0 /\ engine'.adaptive_state = "LONG_VOL"]_vars

\* an exit from SHORT_VOL after two bars of the exit predicate, the bar before
\* them spent in SHORT_VOL with the predicate failing
C12_Witness ==
    /\ mode = "adaptive"
    /\ signal_config.adaptive_exit_persist_bars = 2
    /\ hist_len > 0
    /\ decision.reason = "PAUSED: short exit"
    /\ Len(bar_history) >= 3
    /\ BarBefore(bar_history, 2).adaptive_state = "SHORT_VOL"
    /\ ~_adaptive_short_exit_ok(signal_config, BarBefore(bar_history, 2).x)

Regimes == {"SHORT_VOL", "LONG_VOL"}

\* the bar j bars before the last one was an exit: decide found the sub-state in a
\* regime and left it PAUSED (state_now is the sub-state after the last bar)
ExitedBack(history, state_now, j) ==
    /\ j < Len(history)
    /\ BarBefore(history, j).adaptive_state \in Regimes
    /\ "PAUSED" = (IF j = 0 THEN state_now ELSE BarBefore(history, j - 1).adaptive_state)

ShortStrength(c, x) ==
    (x.edge - c.adaptive_short_edge_enter) + (c.adaptive_short_trend_enter - x.trend_strength)
    + (c.adaptive_vov_low - x.rv_change)

LongStrength(c, x) ==
    ((-x.edge) - c.adaptive_long_cheapness_enter) + (x.rv_change - c.adaptive_vov_high)
    + (c.adaptive_long_trend_max - x.trend_strength)

\* both enter counters have reached the persistence threshold on the bar just
\* evaluated
DoubleEntry ==
    /\ mode = "adaptive"
    /\ EvaluatedFlat
    /\ engine'.adaptive_short_enter_count >= signal_config.adaptive_enter_persist_bars
    /\ engine'.adaptive_long_enter_count >= signal_config.adaptive_enter_persist_bars

\* C14: when both enter counters reach the persistence threshold on the same bar,
\* the side with the higher strength score is selected only if the absolute gap of
\* the scores exceeds adaptive_confidence_buffer; otherwise stance and sub-state
\* stay FLAT, also when the gap equals the buffer or the buffer is 0 and the
\* scores are equal.
C14_AmbiguousEntryStaysFlat ==
    [][DoubleEntry
       => LET x == BarBefore(bar_history', 0).x
              short_strength == ShortStrength(signal_config, x)
              long_strength == LongStrength(signal_config, x)
          IN  IF Abs(short_strength - long_strength) > signal_config.adaptive_confidence_buffer
              THEN /\ decision'.stance = (IF short_strength > long_strength
                                          THEN "SHORT_VOL" ELSE "LONG_VOL")
                   /\ engine'.adaptive_state = decision'.stance
              ELSE /\ decision'.stance = "FLAT"
                   /\ engine'.adaptive_state = "FLAT"]_vars

\* C15: after force_pause(bars, reason) with bars >= 1 on an adaptive or long
\* engine, the next call of decide reports the stance PAUSED with signal 0,
\* whatever the sub-state and the counters were (bars = 1 included).
C15_ForcePauseReportsPaused ==
    [][(/\ DecideStep
        /\ mode \in {"adaptive", "long"}
        /\ call.fn = "force_pause"
        /\ call.bars >= 1)
       => decision'.stance = "PAUSED" /\ decision'.signal = 0]_vars

\* a call of force_pause on an adaptive or long engine has just returned
ForcePauseReturned ==
    /\ call'.fn = "force_pause"
    /\ hist_len' = hist_len
    /\ mode \in {"adaptive", "long"}

\* C16: force_pause(bars, reason) with bars >= 1 on an adaptive or long engine
\* leaves adaptive_pause_remaining = max(previous value, bars), the four
\* persistence counters at 0 and the pause reason equal to the tag; with
\* bars <= 0 it changes nothing of the engine.
C16_ForcePauseNeverShortens ==
    [][ForcePauseReturned
       => IF call'.bars >= 1
          THEN /\ engine'.adaptive_pause_remaining = Max(engine.adaptive_pause_remaining, call'.bars)
               /\ engine'.adaptive_pause_remaining >= engine.adaptive_pause_remaining
               /\ engine'.adaptive_short_enter_count = 0
               /\ engine'.adaptive_long_enter_count = 0
               /\ engine'.adaptive_short_exit_count = 0
               /\ engine'.adaptive_long_exit_count = 0
               /\ engine'.adaptive_pause_reason = call'.reason
          ELSE engine' = engine]_vars

\* force_pause(1, ...) has returned on an engine that had two bars of pause left
C16_Witness ==
    /\ mode \in {"adaptive", "long"}
    /\ call.fn = "force_pause"
    /\ call.bars = 1
    /\ engine.adaptive_pause_remaining = 2
    /\ engine.adaptive_pause_reason = call.reason

\* C17: on every call of decide with a price history shorter than
\* max(rv_short_window, rv_medium_window, trend_window) the stance is FLAT with
\* signal 0, in every mode, whatever the metrics and the engine state.
C17_WarmupIsFlat ==
    [][(/\ DecideStep
        /\ hist_len' < Max(signal_config.rv_short_window,
                           Max(signal_config.rv_medium_window, signal_config.trend_window)))
       => /\ decision'.stance = "FLAT"
          /\ decision'.signal = 0
          /\ decision'.reason = "FLAT: warmup"]_vars

\* a warmup bar with metrics that qualify for a long entry, on an engine a
\* force_pause had put in PAUSED
C17_Witness ==
    /\ mode = "adaptive"
    /\ hist_len = 2
    /\ signal_config.rv_medium_window = 3
    /\ engine.adaptive_state = "PAUSED"
    /\ _adaptive_long_enter_ok(signal_config, LastBar.x)
    /\ decision.stance = "FLAT"

\* C18: in short-only mode, past the warmup and with no cooldown active, the stance
\* is SHORT_VOL with signal -1 if and only if edge >= short_edge_threshold,
\* edge_velocity >= -short_edge_collapse_tolerance, and trend_strength,
\* jump_abs_return and rv_change are each <= their threshold; otherwise the stance
\* is FLAT with signal 0.
C18_ShortGate ==
    [][(/\ DecideStep
        /\ mode = "short"
        /\ hist_len' >= min_warmup_bars(signal_config)
        /\ engine.cooldown_remaining = 0)
       => LET x == BarBefore(bar_history', 0).x
              edge_velocity == IF hist_len = 0 THEN 0 ELSE x.edge - LastBar.x.edge
              pricing == /\ x.edge >= signal_config.short_edge_threshold
                         /\ edge_velocity >= -signal_config.short_edge_collapse_tolerance
              path == /\ x.trend_strength <= signal_config.short_trend_threshold
                      /\ x.jump_abs_return <= signal_config.short_jump_threshold
                      /\ x.rv_change <= signal_config.short_rv_change_threshold
          IN  IF pricing /\ path
              THEN decision'.stance = "SHORT_VOL" /\ decision'.signal = -1
              ELSE decision'.stance = "FLAT" /\ decision'.signal = 0]_vars

\* the edge is above the threshold but has collapsed since the bar before: the
\* short gate leaves the position
C18_Witness ==
    /\ mode = "short"
    /\ hist_len >= 3
    /\ LastBar.x.edge >= signal_config.short_edge_threshold
    /\ LastBar.x.jump_abs_return <= signal_config.short_jump_threshold
    /\ engine.prev_stance = "FLAT"
    /\ decision.reason = "FLAT: short gate fail (pricing)"
    /\ BarBefore(bar_history, 1).x.edge - LastBar.x.edge > signal_config.short_edge_collapse_tolerance


(***************************************************************************)
(* C19: a bar whose equity before the trade is exhausted                   *)
(***************************************************************************)
\* the bar just processed had no equity left and no forced flatten
DegenerateBar ==
    /\ idx > 0
    /\ step_row.equity_before_trade <= 0
    /\ ~step_row.flatten_for_risk

\* C19: on any bar where equity before the trade is <= 0 and no forced flatten
\* fires, trade_allowed fails with "Equity exhausted", the executed position is
\* never larger in magnitude than the opening position, and the run is still
\* processing bars.
C19_DegenerateEquity ==
    DegenerateBar =>
        /\ step_row.limiter_consulted
        /\ step_row.risk_block_reason = "Equity exhausted"
        /\ Abs(step_row.executed_target_contracts) <= Abs(step_row.opening_option_contracts)
        /\ Abs(option_contracts) <= Abs(step_row.opening_option_contracts)
        /\ phase = "running"

\* a bar with exhausted equity and no flatten was blocked, with bars still to come
C19_Witness ==
    /\ DegenerateBar
    /\ Contains(events, "RISK_BLOCK")
    /\ idx < MaxBars

(***************************************************************************)
(* C20: the per-bar step on any input row                                  *)
(***************************************************************************)
\* C20: for every bar of the input, spot <= 0 and equity <= 0 included, the per-bar
\* step of run_single_mode completes: no exception leaves it.
C20_NoExceptionLeavesTheBar == phase # "raised"

(***************************************************************************)
(* C21: the cycle of the reported stance in adaptive and long mode         *)
(***************************************************************************)
\* an active stance is left only to PAUSED
ActiveLeftToPaused ==
    decision.stance \in Regimes => decision'.stance \in {decision.stance, "PAUSED"}

\* PAUSED is left only to FLAT
PausedLeftToFlat ==
    decision.stance = "PAUSED" => decision'.stance \in {"PAUSED", "FLAT"}

\* an active stance is entered only from FLAT
ActiveEnteredFromFlat ==
    decision'.stance \in Regimes => decision.stance \in {decision'.stance, "FLAT"}

\* C21: in adaptive and long mode the reported stance follows the cycle
\* FLAT -> (SHORT_VOL | LONG_VOL) -> PAUSED -> FLAT from one decision to the next:
\* an active stance is left only to PAUSED, PAUSED only to FLAT, and an active
\* stance is entered only from FLAT.
C21_StanceCycle ==
    [][(DecideStep /\ hist_len > 0 /\ mode \in {"adaptive", "long"}) =>
          /\ ActiveLeftToPaused
          /\ PausedLeftToFlat
          /\ ActiveEnteredFromFlat]_vars

(***************************************************************************)
(* C22: the counters of the engine and of the loop                         *)
(***************************************************************************)
\* C22: in every reachable state, after any sequence of decide and force_pause
\* calls and of bars, cooldown_remaining, adaptive_pause_remaining, the four
\* enter/exit persistence counters and the loop's two pause counters are >= 0.
C22_CountersNonNegative ==
    /\ engine.cooldown_remaining >= 0
    /\ engine.adaptive_pause_remaining >= 0
    /\ engine.adaptive_short_enter_count >= 0
    /\ engine.adaptive_long_enter_count >= 0
    /\ engine.adaptive_short_exit_count >= 0
    /\ engine.adaptive_long_exit_count >= 0
    /\ adaptive_short_pause_remaining >= 0
    /\ adaptive_long_pause_remaining >= 0

\* a paused engine was asked to pause for -1 bars after its pause had run down to
\* its last bar
C22_Witness ==
    /\ call.fn = "force_pause"
    /\ call.bars < 0
    /\ hist_len > 0
    /\ LastBar.adaptive_state = "PAUSED"
    /\ engine.adaptive_state = "PAUSED"
    /\ engine.adaptive_pause_remaining = 1

(***************************************************************************)
(* C23, C24: the limiter's fallbacks on a rejected target                  *)
(***************************************************************************)
\* the last bar had no forced flatten and its requested target failed trade_allowed
RejectedTarget ==
    /\ idx > 0
    /\ ~step_row.flatten_for_risk
    /\ ~evaluate_projected_trade(step_row.requested_option_contracts, row,
                                 step_row.equity_before_trade).allowed

ClampOfRequested ==
    clamp_target_to_risk_limits(step_row.requested_option_contracts, row,
                                step_row.equity_before_trade)

\* C23: on a bar without forced flatten where the target fails trade_allowed and is
\* not risk-reducing, the executed target is the clamp result, with a RISK_CLAMP
\* event, iff the clamp result is strictly larger in magnitude than the opening
\* position; otherwise the position stays at its opening size and RISK_BLOCK is
\* logged.
C23_ClampOrBlock ==
    (RejectedTarget
     /\ Abs(step_row.requested_option_contracts) >= Abs(step_row.opening_option_contracts)) =>
        IF Abs(ClampOfRequested) > Abs(step_row.opening_option_contracts)
        THEN /\ step_row.executed_target_contracts = ClampOfRequested
             /\ option_contracts = ClampOfRequested
             /\ Contains(events, "RISK_CLAMP")
             /\ ~Contains(events, "RISK_BLOCK")
        ELSE /\ step_row.executed_target_contracts = step_row.opening_option_contracts
             /\ option_contracts = step_row.opening_option_contracts
             /\ Contains(events, "RISK_BLOCK")
             /\ ~Contains(events, "RISK_CLAMP")

\* a rejected target that grows a held position was clamped to something between
\* the opening position and the request
C23_Witness ==
    /\ RejectedTarget
    /\ step_row.opening_option_contracts # 0
    /\ Abs(step_row.requested_option_contracts) > Abs(ClampOfRequested)
    /\ Abs(ClampOfRequested) > Abs(step_row.opening_option_contracts)
    /\ Contains(events, "RISK_CLAMP")

\* C24: on a bar without forced flatten where the target fails trade_allowed and
\* the target's magnitude is <= the opening magnitude, equal magnitudes included,
\* the target is executed as it is and RISK_ALLOW_DERISK is logged.
C24_DeriskOverride ==
    (RejectedTarget
     /\ Abs(step_row.requested_option_contracts) <= Abs(step_row.opening_option_contracts)) =>
        /\ step_row.executed_target_contracts = step_row.requested_option_contracts
        /\ Contains(events, "RISK_ALLOW_DERISK")

(***************************************************************************)
(* C25: the clamp is the largest passing magnitude                         *)
(***************************************************************************)
\* the magnitudes in [0, |desired|] that pass trade_allowed with the sign of desired
PassingMagnitudes(desired, m, projected_equity) ==
    {k \in 0 .. Abs(desired) :
        evaluate_projected_trade(Sign(desired) * k, m, projected_equity).allowed}

LargestOf(S) == CHOOSE k \in S : \A j \in S : j <= k

RECURSIVE TwoToThe(_)
TwoToThe(n) == IF n <= 0 THEN 1 ELSE 2 * TwoToThe(n - 1)

\* C25: clamp_target_to_risk_limits returns the largest magnitude in [0, |desired|]
\* that passes trade_allowed with the sign of desired, 0 if none passes, and its
\* binary search ends after finitely many probes (at most log2(|desired| + 1) + 1).
C25_ClampIsLargestPassing ==
    (call.fn = "clamp_target_to_risk_limits" /\ ret.done) =>
        LET d == call.desired_contracts
            passing == PassingMagnitudes(d, call.m, call.projected_equity)
            probes == IF d = 0 THEN 0
                      ELSE ClampProbes(Sign(d), 0, Abs(d), call.m, call.projected_equity)
        IN  /\ ret.value = IF passing = {} THEN 0 ELSE Sign(d) * LargestOf(passing)
            /\ d # 0 => probes >= 1 /\ TwoToThe(probes - 1) <= Abs(d) + 1

\* a rejected long position was clamped to a magnitude found after several probes
C25_Witness ==
    /\ call.fn = "clamp_target_to_risk_limits" /\ ret.done
    /\ call.desired_contracts > 3
    /\ ret.value > 1 /\ ret.value < call.desired_contracts - 1
    /\ ~evaluate_projected_trade(ret.value + 1, call.m, call.projected_equity).allowed

(***************************************************************************)
(* C26: the limiter is monotone in the magnitude of the position           *)
(***************************************************************************)
\* the position one contract smaller, with the same sign
OneSmaller(contracts) == contracts - Sign(contracts)

\* C26: for a fixed market row and projected equity, if evaluate_projected_trade
\* allows a position it allows every same-sign position of smaller magnitude, and
\* capital at risk, the notional with its rounded hedge, |gamma| and |vega| do not
\* decrease with |contracts|.
C26_LimiterMonotone ==
    (call.fn = "evaluate_projected_trade" /\ ret.done) =>
        LET c == call.projected_option_contracts
            now == ret.value.exposure
            before == ProjectedExposure(OneSmaller(c), call.m)
        IN  /\ ret.value.allowed =>
                 \A k \in 0 .. Abs(c) :
                     evaluate_projected_trade(Sign(c) * k, call.m, call.projected_equity).allowed
            /\ before.option_notional <= now.option_notional
            /\ before.notional_exposure <= now.notional_exposure
            /\ Abs(before.gamma_exposure) <= Abs(now.gamma_exposure)
            /\ Abs(before.vega_exposure) <= Abs(now.vega_exposure)

\* a short position is rejected although the position one contract smaller passes,
\* and the rounded hedge of the two is the same
C26_Witness ==
    /\ call.fn = "evaluate_projected_trade" /\ ret.done
    /\ call.projected_option_contracts < -1
    /\ ~ret.value.allowed
    /\ evaluate_projected_trade(OneSmaller(call.projected_option_contracts), call.m,
                                call.projected_equity).allowed
    /\ HedgeSharesFor(OneSmaller(call.projected_option_contracts), call.m.delta)
         = HedgeSharesFor(call.projected_option_contracts, call.m.delta)

(***************************************************************************)
(* C27: the global drawdown kill                                           *)
(***************************************************************************)
\* the last bar began with a drawdown at or above global_drawdown_kill_threshold
GlobalKillBar ==
    /\ idx > 0
    /\ DrawdownGe(step_row.drawdown_before_trade, global_drawdown_kill_threshold)

\* C27: on every bar where the drawdown before the trade is >=
\* global_drawdown_kill_threshold the position is force-flattened, with executed
\* target 0 and the tag GLOBAL_DRAWDOWN_KILL, in every gamma zone and every mode:
\* no position is opened or held on such a bar.
C27_GlobalKillFlattens ==
    GlobalKillBar =>
        /\ step_row.flatten_for_risk
        /\ step_row.executed_target_contracts = 0
        /\ Contains(step_row.risk_events, "GLOBAL_DRAWDOWN_KILL")
        /\ option_contracts = 0

KillActionOfBar == evaluate(step_row.gamma_risk, step_row.drawdown_before_trade)

OverlayTags ==
    {"GLOBAL_DRAWDOWN_KILL", "GLOBAL_DRAWDOWN_THROTTLE",
     "LONG_CATASTROPHIC_KILL", "LONG_PAUSE_DRAWDOWN"}

IsPrefix(head, seq) ==
    /\ Len(head) <= Len(seq)
    /\ \A i \in 1 .. Len(head) : seq[i] = head[i]

NoRepeat(seq) == \A i, j \in 1 .. Len(seq) : seq[i] = seq[j] => i = j

\* C29: on every bar and in every mode the risk reasons of the bar start with the
\* reasons of the kill switch in their order, the rest are tags the overlays
\* appended, no tag appears twice, and flatten_for_risk is true whenever the kill
\* switch's flatten_positions is true.
C29_OverlaysOnlyAdd ==
    idx > 0 =>
        /\ IsPrefix(KillActionOfBar.reasons, step_row.risk_events)
        /\ \A i \in Len(KillActionOfBar.reasons) + 1 .. Len(step_row.risk_events) :
               step_row.risk_events[i] \in OverlayTags
        /\ NoRepeat(step_row.risk_events)
        /\ KillActionOfBar.flatten_positions => step_row.flatten_for_risk

\* the yellow zone's throttle is followed by the tags of two overlays
C29_Witness ==
    /\ idx > 0
    /\ KillActionOfBar.reasons = <<"GAMMA_YELLOW_THROTTLE">>
    /\ Len(step_row.risk_events) = 3

(***************************************************************************)
(* C30: the cooldown of the short mode                                     *)
(***************************************************************************)
\* C30: in short mode a decision that takes the stance from SHORT_VOL to FLAT arms
\* the cooldown to cooldown_bars; while it is > 0 every decision is FLAT whatever
\* the filters say and counts it down by one without arming it again, so
\* SHORT_VOL is reported again at the earliest on the (cooldown_bars + 1)-th
\* decision after the exit.
C30_ShortCooldown ==
    [][(DecideStep /\ mode = "short" /\ hist_len > 0) =>
          /\ (decision.stance = "SHORT_VOL" /\ decision'.stance = "FLAT") =>
                 engine'.cooldown_remaining = signal_config.cooldown_bars
          /\ engine.cooldown_remaining > 0 =>
                 /\ decision'.stance = "FLAT"
                 /\ decision'.signal = 0
                 /\ engine'.cooldown_remaining = engine.cooldown_remaining - 1
          /\ decision'.stance = "SHORT_VOL" => engine.cooldown_remaining = 0
          /\ engine'.cooldown_remaining \in 0 .. signal_config.cooldown_bars]_vars

\* the last of two forced FLAT decisions, on a bar whose filters pass
C30_Witness ==
    /\ mode = "short"
    /\ signal_config.cooldown_bars = 2
    /\ hist_len > 3
    /\ decision.reason = "FLAT: cooldown"
    /\ engine.cooldown_remaining = 0
    /\ LastBar.x.edge >= signal_config.short_edge_threshold
    /\ BarBefore(bar_history, 1).x.edge = LastBar.x.edge
    /\ ShortPathOk(signal_config, LastBar.x)

(***************************************************************************)
(* C31: the long mode against the long side of the adaptive mode           *)
(***************************************************************************)
\* C31: fed the same bars, none of which satisfies the adaptive short-enter
\* predicate, the long-mode engine and the adaptive-mode engine of one
\* configuration report the same stance on every bar.
C31_LongSharesAdaptiveLong ==
    hist_len > 0 => decision["long"].stance = decision["adaptive"].stance

(***************************************************************************)
(* C32: the modes of one run do not share state                            *)
(***************************************************************************)
\* what the loop carries on from the result of a bar
CarriedFrom(n, k) ==
    [cash |-> n.cash, option_contracts |-> n.option_contracts,
     hedge_shares |-> n.hedge_shares, peak_equity |-> n.peak_equity,
     pending_target_contracts |-> n.pending_target_contracts,
     adaptive_short_pause_remaining |-> n.adaptive_short_pause_remaining,
     adaptive_long_pause_remaining |-> n.adaptive_long_pause_remaining,
     engine |-> n.engine, hist_len |-> k, prev_stance |-> n.decision.stance]

\* the result of bar k of a mode that is the only mode run on the data
RECURSIVE AloneBar(_, _)
AloneBar(the_mode, k) ==
    LET b == call.market_data[k]
        s == IF k = 1
             THEN [cash |-> INITIAL_CAPITAL, option_contracts |-> 0, hedge_shares |-> 0,
                   peak_equity |-> INITIAL_CAPITAL, pending_target_contracts |-> 0,
                   adaptive_short_pause_remaining |-> 0,
                   adaptive_long_pause_remaining |-> 0,
                   engine |-> EngineInit, hist_len |-> 0, prev_stance |-> "FLAT"]
             ELSE CarriedFrom(AloneBar(the_mode, k - 1), k - 1)
    IN  RunBar(the_mode, args, signal_config, s, b.m, b.x)

ShortKillBar ==
    /\ mode = "short"
    /\ idx > 0
    /\ DrawdownGe(step_row.drawdown_before_trade, global_drawdown_kill_threshold)

\* C33: in short mode a bar whose drawdown before the trade is >=
\* global_drawdown_kill_threshold ends with no option position, no hedge and a
\* queued target of 0, and the bar after it begins at or beyond the threshold
\* again: from the first such bar on the book stays flat for the rest of the run.
C33_ShortKillAbsorbing ==
    /\ [](ShortKillBar =>
            /\ option_contracts = 0
            /\ step_row.option_contracts = 0
            /\ hedge_shares = 0
            /\ pending_target_contracts = 0
            /\ step_row.queued_option_contracts = 0
            /\ Contains(step_row.risk_events, "GLOBAL_DRAWDOWN_KILL"))
    /\ [][ShortKillBar => ShortKillBar']_vars

\* the kill fires again on a flat book, on a bar whose decision is SHORT_VOL
C33_Witness ==
    /\ ShortKillBar
    /\ step_row.opening_option_contracts = 0
    /\ step_row.requested_option_contracts = 0
    /\ decision.stance = "SHORT_VOL"
    /\ idx < MaxBars

LimiterTags == {"RISK_BLOCK", "RISK_CLAMP", "RISK_ALLOW_DERISK"}

\* the position the last bar ended with passes trade_allowed at the prices of the
\* bar and the equity before its trade
ExecutedPasses ==
    evaluate_projected_trade(step_row.option_contracts, row, step_row.equity_before_trade).allowed

\* C35: on a bar without forced flatten the executed option position passes
\* trade_allowed at the bar's prices and pre-trade equity, or is no larger in
\* magnitude than the opening position; and the bar logs at most one of
\* RISK_BLOCK, RISK_CLAMP and RISK_ALLOW_DERISK.
C35_LimiterInvariant ==
    idx > 0 =>
        /\ ~step_row.flatten_for_risk =>
               \/ ExecutedPasses
               \/ Abs(step_row.option_contracts) <= Abs(step_row.opening_option_contracts)
        /\ Cardinality({i \in 1 .. Len(events) : events[i] \in LimiterTags}) <= 1

\* a held position that no longer passes and is kept, the larger target blocked
C35_Witness ==
    /\ idx > 0
    /\ ~step_row.flatten_for_risk
    /\ ~ExecutedPasses
    /\ step_row.option_contracts # 0
    /\ Abs(step_row.requested_option_contracts) > Abs(step_row.opening_option_contracts)
    /\ Contains(events, "RISK_BLOCK")

(***************************************************************************)
(* C36: the bar after a forced flatten                                     *)
(***************************************************************************)
\* the last bar had flatten_for_risk set
FlattenBar == idx > 0 /\ step_row.flatten_for_risk

\* C36: in every mode a bar whose flatten_for_risk is set ends with no option
\* position and a queued target of 0, and the bar after it ends with no option
\* position either, whatever the limiter says about a book of 0 contracts.
C36_FlatForTwoBars ==
    /\ [](FlattenBar =>
            /\ option_contracts = 0
            /\ step_row.option_contracts = 0
            /\ pending_target_contracts = 0
            /\ step_row.queued_option_contracts = 0)
    /\ [][(FlattenBar /\ idx' = idx + 1) =>
            /\ option_contracts' = 0
            /\ step_row'.option_contracts = 0
            /\ step_row'.requested_option_contracts = 0]_vars

\* a flatten of a held position on a bar whose stance asks for one, with a bar
\* still to come that the limiter meets with no equity left
C36_Witness ==
    /\ FlattenBar
    /\ step_row.opening_option_contracts # 0
    /\ decision.signal # 0
    /\ step_row.equity <= 0
    /\ idx < MaxBars

(***************************************************************************)
(* C37: the sign of the position of the short and of the long mode         *)
(***************************************************************************)
\* C37: in short mode every bar reports FLAT or SHORT_VOL and ends with
\* option_contracts <= 0; in long mode every bar reports FLAT, LONG_VOL or PAUSED
\* and ends with option_contracts >= 0.
C37_SignByMode ==
    idx > 0 =>
        /\ mode = "short" =>
               /\ decision.stance \in {"FLAT", "SHORT_VOL"}
               /\ step_row.stance \in {"FLAT", "SHORT_VOL"}
               /\ option_contracts <= 0
               /\ step_row.option_contracts <= 0
        /\ mode = "long" =>
               /\ decision.stance \in {"FLAT", "LONG_VOL", "PAUSED"}
               /\ step_row.stance \in {"FLAT", "LONG_VOL", "PAUSED"}
               /\ option_contracts >= 0
               /\ step_row.option_contracts >= 0

\* a short position the clamp cut down, on a bar that reports SHORT_VOL
C37_Witness ==
    /\ mode = "short"
    /\ idx > 0
    /\ option_contracts < 0
    /\ Contains(events, "RISK_CLAMP")
    /\ decision.stance = "SHORT_VOL"

(***************************************************************************)
(* C38: no position during the warmup                                      *)
(***************************************************************************)
\* the longest of the three windows of the configuration of the run
WarmupBars ==
    Max(signal_config.rv_short_window,
        Max(signal_config.rv_medium_window, signal_config.trend_window))

\* C38: in every mode a bar whose 1-based index is <= min_warmup_bars ends with
\* option_contracts = 0 and hedge_shares = 0.
C38_FlatThroughWarmup ==
    (idx > 0 /\ idx <= WarmupBars) =>
        /\ option_contracts = 0
        /\ hedge_shares = 0
        /\ step_row.option_contracts = 0
        /\ step_row.hedge_shares = 0
        /\ step_row.requested_option_contracts = 0

\* a warmup of two bars, and a position on the bar after it
C38_Witness ==
    /\ WarmupBars = 2
    /\ idx = WarmupBars + 1
    /\ option_contracts # 0
    /\ hedge_shares # 0

(***************************************************************************)
(* C39: the two enter predicates of the adaptive mode                      *)
(***************************************************************************)
\* both enter counters of the engine have reached the persistence threshold: the
\* condition of the branch that compares short_strength and long_strength
BothCountersPersisted ==
    /\ engine.adaptive_short_enter_count >= Max(1, signal_config.adaptive_enter_persist_bars)
    /\ engine.adaptive_long_enter_count >= Max(1, signal_config.adaptive_enter_persist_bars)

\* C39: with adaptive_vov_low < adaptive_vov_high no bar satisfies the adaptive
\* short-enter and long-enter predicates together, the two enter counters are
\* never both at the persistence threshold, and so decide never reaches the
\* comparison of the two strengths.
C39_EnterPredicatesExclusive ==
    (signal_config.adaptive_vov_low < signal_config.adaptive_vov_high /\ hist_len > 0) =>
        /\ ~(/\ _adaptive_short_enter_ok(signal_config, LastBar.x)
             /\ _adaptive_long_enter_ok(signal_config, LastBar.x))
        /\ ~BothCountersPersisted
        /\ engine.adaptive_short_enter_count = 0 \/ engine.adaptive_long_enter_count = 0

\* the long-enter predicate has persisted for two bars right after a bar of the
\* FLAT sub-state on which the short-enter predicate held
C39_Witness ==
    /\ signal_config.adaptive_vov_low < signal_config.adaptive_vov_high
    /\ signal_config.adaptive_enter_persist_bars = 2
    /\ Len(bar_history) >= 3
    /\ hist_len >= 4
    /\ BarBefore(bar_history, 2).adaptive_state = "FLAT"
    /\ _adaptive_short_enter_ok(signal_config, BarBefore(bar_history, 2).x)
    /\ _adaptive_long_enter_ok(signal_config, BarBefore(bar_history, 1).x)
    /\ _adaptive_long_enter_ok(signal_config, LastBar.x)
    /\ engine.adaptive_long_enter_count = 2
    /\ engine.adaptive_short_enter_count = 0
    /\ decision.stance = "LONG_VOL"

(***************************************************************************)
(* C40: the pause counter and the sub-state of the engine                  *)
(***************************************************************************)
\* the last call on the engine was a decide on a history past the warmup
DecidedPastWarmup ==
    /\ call.fn # "force_pause"
    /\ hist_len >= min_warmup_bars(signal_config)
    /\ hist_len > 0

\* C40: in adaptive and long mode, after any sequence of decide and force_pause
\* calls, adaptive_pause_remaining is 0 whenever adaptive_state is FLAT,
\* SHORT_VOL or LONG_VOL, and the cooldown_remaining a decide past the warmup
\* reports is adaptive_pause_remaining.
C40_PauseCounterAndSubState ==
    mode \in {"adaptive", "long"} =>
        /\ engine.adaptive_state \in {"FLAT", "SHORT_VOL", "LONG_VOL"} =>
               engine.adaptive_pause_remaining = 0
        /\ engine.adaptive_state \in {"FLAT", "SHORT_VOL", "LONG_VOL", "PAUSED"}
        /\ engine.adaptive_pause_remaining >= 0
        /\ DecidedPastWarmup =>
               /\ decision.cooldown_remaining = engine.adaptive_pause_remaining
               /\ engine.cooldown_remaining = engine.adaptive_pause_remaining

\* a pause forced during the warmup, counted down by the first decide past it
C40_Witness ==
    /\ mode \in {"adaptive", "long"}
    /\ DecidedPastWarmup
    /\ hist_len = min_warmup_bars(signal_config)
    /\ engine.adaptive_state = "PAUSED"
    /\ engine.adaptive_pause_reason = "GLOBAL_DRAWDOWN_KILL"
    /\ engine.adaptive_pause_remaining = 2
    /\ decision.cooldown_remaining = 2

====
